---- MODULE Spec2Model ----
(***************************************************************************)
(* Backup execution core of pgBackRest: the per-file copy worker           *)
(* (backupFile / backupProtocol), backup label assignment                   *)
(* (backupLabelCreate) and the commit protocol of the backup orchestrator    *)
(* (cmdBackup).  The worker and the orchestrator are exercised by            *)
(* test/src/module/command/backupTest.c; every branch below names the test   *)
(* that pins it.                                                             *)
(* The cache of protocol clients is modelled from protocol/helper.c.          *)
(***************************************************************************)
EXTENDS Integers, Sequences, FiniteSets, TLC

\* ------------------------------------------------------------------ bounds
MaxLen == 2                     \* longest file content, in bytes
PageSize == 2                   \* relation page size, in bytes (scaled)
MaxTime == 4                    \* last second of the clock
MaxFile == 2                    \* number of files in the cluster

\* --------------------------------------------------------------- constants
GzOverhead == 20                \* gzip header and trailer around a short file
CipherBlock == 16               \* AES block, also the size of the salt header

Byte == {0, 1}
Contents == UNION {[1..n -> Byte] : n \in 0..MaxLen}

\* ------------------------------------------------------------------- state
VARIABLES
    \* per-file copy worker
    pg,                 \* the source file in the cluster
    repo,               \* the file at the repo path of this job
    repoFileCompress,   \* compress type of the repository ("none" | "gz")
    cipherType,         \* cipher type of the repository ("none" | "aes-256-cbc")
    call,               \* parameters and pre-state of the last backupFile call
    res,                \* its outcome
    serverWrite,        \* what backupProtocol wrote to the protocol server
    \* label assignment
    backupList,         \* labels of the directories under backup/<stanza>
    historyList,        \* labels of the manifests under backup.history
    clock,              \* current second
    labelCall,          \* last backupLabelCreate call
    labelOut,           \* its outcome
    \* orchestrator
    phase,              \* position of cmdBackup
    runLabel,           \* label of the running backup (NoLabel before assignment)
    runType,            \* type of the running backup
    backupDir,          \* label -> contents of its backup directory
    backupInfo,         \* labels listed in backup.info
    todo,               \* files still to copy in this run
    runError,           \* error that ended the run ("" when none)
    copyStarted,        \* the run got as far as the copy phase
    cluster,            \* file -> version of its content in the cluster
    runOpt,             \* options of the running cmdBackup process
    runWarn,            \* warnings the running process has logged
    archiveWait,        \* seconds the archive check has waited
    walArchived,        \* the WAL segments of the backup are in the archive
    \* resume check
    findRepo,           \* the latest backup directory of the repository
    findCall,           \* inputs of the last backupResumeFind call
    findOut,            \* its outcome, and the label the backup goes on with
    \* resume clean, for one file name of the resumed backup
    resumeIn,           \* options, cluster file, manifest entries and repo entry found
    resumeDir,          \* the entry of that name in the resumed backup directory
    resumeFile,         \* the entry of that name in the new manifest
    resumeOut,          \* position, log and job result
    \* a diff or incr backup built on a prior backup, for one file name
    priorIn,            \* options asked for, prior manifest, timelines, cluster file
    priorOut,           \* position, options in effect, warnings, manifest entry, job result
    \* a file of a backup made with --backup-standby
    standby,            \* the file on both hosts, the host read, job result and manifest entry
    \* a relation file that is page-checked while it is copied
    page,               \* position, the pages of the file, job result, manifest entry, log
    \* parallel job dispatcher
    parallel,           \* job queue, per worker the jobs sent and the response waiting, manifest, results
                        \* given and applied, files to remove, size copied, arrival log, error
    \* a manifest that is loaded, saved and searched
    manifestIo,         \* position, the text loaded first, the text saved, the manifest loaded, the one
                        \* before it, what the search found
    \* the calls of an online backup to the database
    db,                 \* position, version and options, the calls made so far, files copied, error
    \* the protocol helper (protocol/helper.c)
    helper              \* memory context, the two caches of client and exec, processes started, last call

fileVars == <<pg, repo, repoFileCompress, cipherType, call, res, serverWrite>>
labelVars == <<backupList, historyList, clock, labelCall, labelOut>>
runVars ==
    <<phase, runLabel, runType, backupDir, backupInfo, todo, runError, copyStarted, cluster, runOpt, runWarn,
      archiveWait, walArchived>>
moreVars == <<findRepo, findCall, findOut, resumeIn, resumeDir, resumeFile, resumeOut, priorIn, priorOut, standby,
        page, parallel, manifestIo, db, helper>>
vars == <<fileVars, labelVars, runVars, moreVars>>

\* ======================================================== file copy worker
NULL == <<>>
Sha1(bytes) == <<"sha1", bytes>>

NoFile == [exists |-> FALSE, data |-> <<>>]
File(bytes) == [exists |-> TRUE, data |-> bytes]

\* A repo file is absent, holds bytes that decode to `data`, or holds bytes
\* that cannot be decompressed / decrypted.
NoRepo == [state |-> "none", data |-> <<>>]
RepoOk(bytes) == [state |-> "ok", data |-> bytes]
RepoCorrupt == [state |-> "corrupt", data |-> <<>>]

ResultInit ==
    [backupCopyResult |-> "copy", copySize |-> 0, repoSize |-> 0, copyChecksum |-> NULL, pageChecksumResult |-> NULL]

NoRes == [status |-> "none", r |-> ResultInit]

\* Variant: the read is never limited.
PgReadWhole(p, bytes) == bytes

\* Bytes a read of the source returns: all of it, or the first pgFileSize
\* bytes when the exact size was asked for.
PgRead(p, bytes) ==
    IF p.pgFileCopyExactSize THEN SubSeq(bytes, 1,
            IF Len(bytes) < p.pgFileSize THEN Len(bytes) ELSE p.pgFileSize) ELSE bytes

\* Size of the repo file at rest for `n` bytes of source.
RepoSize(n, compress, cipher) ==
    LET compressed == IF compress = "gz" THEN n + GzOverhead ELSE n IN
    IF cipher = "aes-256-cbc" THEN CipherBlock + CipherBlock * ((compressed \div CipherBlock) + 1) ELSE compressed

PageChecksumResult(bytes) == <<[align |-> Len(bytes) % PageSize = 0]>>

\* Variant: only the checksum is compared.
PgFileMatchChecksumOnly(p, bytes) == Sha1(PgRead(p, bytes)) = p.pgFileChecksum

\* Does the source match the checksum and size passed?
PgFileMatch(p, bytes) ==
    /\ Len(PgRead(p, bytes)) = p.pgFileSize
    /\ Sha1(PgRead(p, bytes)) = p.pgFileChecksum

\* Variant: only the size of the repo copy is compared.
RepoFileMatchSizeOnly(p, repoFile) == repoFile.state = "ok" /\ Len(repoFile.data) = p.pgFileSize

\* Does the repo copy, read back through decompression / decryption, match?
RepoFileMatch(p, repoFile) ==
    /\ repoFile.state = "ok"
    /\ Len(repoFile.data) = p.pgFileSize
    /\ Sha1(repoFile.data) = p.pgFileChecksum

\* Variant: a matching source is never left alone.
BackupFileCheckDeltaNoNoOp(p, pgFile) ==
    IF ~p.delta THEN "copy"
    ELSE IF ~pgFile.exists THEN (IF p.pgFileIgnoreMissing THEN "skip" ELSE "FileMissingError")
    ELSE "copy"

\* The check made before any copy, when a checksum was passed.  Yields the
\* copy result so far ("copy" when nothing was decided).
BackupFileCheckDelta(p, pgFile) ==
    IF ~p.delta THEN "copy"
    ELSE IF ~pgFile.exists THEN (IF p.pgFileIgnoreMissing THEN "skip" ELSE "FileMissingError")
    ELSE IF PgFileMatch(p, pgFile.data) /\ p.repoFileHasReference THEN "noop"
    ELSE "copy"

\* Variant: the repo copy is compared only when the source matched.
BackupFileCheckRepoLiveOnly(p, pgFile, repoFile, soFar) ==
    IF p.delta /\ p.repoFileHasReference THEN soFar
    ELSE IF soFar = "skip" THEN "skip"
    ELSE IF pgFile.exists /\ PgFileMatch(p, pgFile.data)
        THEN (IF RepoFileMatch(p, repoFile) THEN "checksum" ELSE "recopy")
    ELSE soFar

\* Variant: replacing any repo file that exists is a recopy.
BackupFileCheckRepoExisting(p, pgFile, repoFile, soFar) ==
    IF p.delta /\ p.repoFileHasReference THEN (IF soFar = "copy" /\ repoFile.state # "none" THEN "recopy" ELSE soFar)
    ELSE IF soFar = "skip" THEN "skip"
    ELSE IF ~p.delta \/ PgFileMatch(p, pgFile.data)
        THEN (IF RepoFileMatch(p, repoFile) THEN "checksum" ELSE "recopy")
    ELSE IF repoFile.state # "none" THEN "recopy"
    ELSE soFar

\* The check of the repo copy: skipped for a reference under delta, made when
\* delta is off or the source matched.
BackupFileCheckRepo(p, pgFile, repoFile, soFar) ==
    IF p.delta /\ p.repoFileHasReference THEN soFar
    ELSE IF soFar = "skip" THEN "skip"
    ELSE IF ~p.delta \/ PgFileMatch(p, pgFile.data)
        THEN (IF RepoFileMatch(p, repoFile) THEN "checksum" ELSE "recopy")
    ELSE soFar

BackupFileCheck(p, pgFile, repoFile) ==
    IF p.pgFileChecksum = NULL THEN "copy"
    ELSE LET soFar == BackupFileCheckDelta(p, pgFile) IN
         IF soFar = "FileMissingError" THEN soFar ELSE BackupFileCheckRepo(p, pgFile, repoFile, soFar)

\* Variant: the repo copy is never removed.
BackupFileRemoveNever(p, pgFile) == FALSE

\* The repo copy is removed when a delta check finds the source gone and the
\* file is not a reference.
BackupFileRemove(p, pgFile) ==
    p.pgFileChecksum # NULL /\ p.delta /\ ~p.repoFileHasReference /\ ~pgFile.exists /\ p.pgFileIgnoreMissing

\* Variant: a missing source is skipped whether or not it may be missing.
BackupFileCopyIgnoreMissing(p, pgFile, repoFile, compress, cipher, decided) ==
    IF ~pgFile.exists
        THEN [status |-> "ok", r |-> [ResultInit EXCEPT !.backupCopyResult = "skip"], repo |-> repoFile]
    ELSE LET bytes == PgRead(p, pgFile.data) IN
         [status |-> "ok",
          r |-> [backupCopyResult |-> decided, copySize |-> Len(bytes),
                 repoSize |-> RepoSize(Len(bytes), compress, cipher), copyChecksum |-> Sha1(bytes),
                 pageChecksumResult |-> IF p.pgFileChecksumPage THEN PageChecksumResult(bytes) ELSE NULL],
          repo |-> RepoOk(bytes)]

\* Copy of the source into the repo.
BackupFileCopy(p, pgFile, repoFile, compress, cipher, decided) ==
    IF ~pgFile.exists
        THEN IF p.pgFileIgnoreMissing
                 THEN [status |-> "ok", r |-> [ResultInit EXCEPT !.backupCopyResult = "skip"], repo |-> repoFile]
                 ELSE [status |-> "FileMissingError", r |-> ResultInit, repo |-> repoFile]
    ELSE LET bytes == PgRead(p, pgFile.data) IN
         [status |-> "ok",
          r |-> [backupCopyResult |-> decided, copySize |-> Len(bytes),
                 repoSize |-> RepoSize(Len(bytes), compress, cipher), copyChecksum |-> Sha1(bytes),
                 pageChecksumResult |-> IF p.pgFileChecksumPage THEN PageChecksumResult(bytes) ELSE NULL],
          repo |-> RepoOk(bytes)]

BackupFile(p, pgFile, repoFile, compress, cipher) ==
    LET decided == BackupFileCheck(p, pgFile, repoFile) IN
    CASE decided = "FileMissingError" ->
            [status |-> "FileMissingError", r |-> ResultInit, repo |-> repoFile]
      [] decided = "skip" ->
            [status |-> "ok", r |-> [ResultInit EXCEPT !.backupCopyResult = "skip"],
             repo |-> IF BackupFileRemove(p, pgFile) THEN NoRepo ELSE repoFile]
      [] decided = "noop" ->
            [status |-> "ok",
             r |-> [ResultInit EXCEPT !.backupCopyResult = "noop", !.copySize = Len(PgRead(p, pgFile.data)),
                                      !.copyChecksum = Sha1(PgRead(p, pgFile.data))],
             repo |-> repoFile]
      [] decided = "checksum" ->
            [status |-> "ok",
             r |-> [ResultInit EXCEPT !.backupCopyResult = "checksum", !.copySize = Len(repoFile.data),
                                      !.copyChecksum = Sha1(repoFile.data),
                                      !.repoSize = RepoSize(Len(repoFile.data), compress, cipher)],
             repo |-> repoFile]
      [] OTHER -> BackupFileCopy(p, pgFile, repoFile, compress, cipher, decided)

\* Variant: copy and checksum exchanged.
BackupCopyResultIntCopyFirst(result) ==
    CASE result = "copy" -> 0
      [] result = "checksum" -> 1
      [] result = "recopy" -> 2
      [] result = "skip" -> 3
      [] result = "noop" -> 4

\* Integer sent for the copy result in the protocol response.
BackupCopyResultInt(result) ==
    CASE result = "checksum" -> 0
      [] result = "copy" -> 1
      [] result = "recopy" -> 2
      [] result = "skip" -> 3
      [] result = "noop" -> 4

ProtocolOut(r) ==
    [out |-> <<BackupCopyResultInt(r.backupCopyResult), r.copySize, r.repoSize, r.copyChecksum,
            r.pageChecksumResult>>]

NoOut == [out |-> <<>>]

\* ------------------------------------------------------------ file actions

Idle == UNCHANGED <<call, res, serverWrite>>

\* The cluster creates, rewrites, extends or removes the file.
PgPut ==
    /\ ~call.active
    /\ \E c \in Contents : pg' = File(c)
    /\ pg' # pg
    /\ Idle
    /\ UNCHANGED <<repo, repoFileCompress, cipherType>>

PgRemove ==
    /\ ~call.active
    /\ pg.exists
    /\ pg' = NoFile
    /\ Idle
    /\ UNCHANGED <<repo, repoFileCompress, cipherType>>

\* The server hands the response on and waits for the next command.
ProtocolNext ==
    /\ call.active
    /\ call' = [active |-> FALSE, p |-> [pgFileIgnoreMissing |-> FALSE, pgFileSize |-> 0,
            pgFileCopyExactSize |-> FALSE, pgFileChecksum |-> NULL, pgFileChecksumPage |-> FALSE,
                    repoFileHasReference |-> FALSE, delta |-> FALSE],
                            repoBefore |-> NoRepo] /\ res' = NoRes /\ serverWrite' = NoOut
    /\ UNCHANGED <<pg, repo, repoFileCompress, cipherType>>

\* Something else left a file at the repo path (a prior attempt, damage).
RepoPut ==
    /\ ~call.active
    /\ \E f \in {NoRepo, RepoCorrupt} \cup {RepoOk(c) : c \in Contents} :
          /\ f = RepoCorrupt => (repoFileCompress # "none" \/ cipherType # "none")
          /\ repo' = f
    /\ repo' # repo
    /\ Idle
    /\ UNCHANGED <<pg, repoFileCompress, cipherType>>

\* backupProtocol: run backupFile on the parameters and answer the server.
BackupProtocol ==
    /\ ~call.active
    /\ \E p \in [pgFileIgnoreMissing : BOOLEAN, pgFileSize : 0..MaxLen, pgFileCopyExactSize : BOOLEAN,
            pgFileChecksum : {NULL} \cup {Sha1(c) : c \in Contents}, pgFileChecksumPage : BOOLEAN,
                    repoFileHasReference : BOOLEAN, delta : BOOLEAN] :
        LET o == BackupFile(p, pg, repo, repoFileCompress, cipherType) IN
        /\ call' = [active |-> TRUE, p |-> p, repoBefore |-> repo]
        /\ res' = [status |-> o.status, r |-> o.r]
        /\ repo' = o.repo
        /\ serverWrite' = IF o.status = "ok" THEN ProtocolOut(o.r) ELSE NoOut
        /\ UNCHANGED <<pg, repoFileCompress, cipherType>>

NextFile ==
    \/ PgPut /\ UNCHANGED <<labelVars, runVars, moreVars>>
    \/ PgRemove /\ UNCHANGED <<labelVars, runVars, moreVars>>
    \/ RepoPut /\ UNCHANGED <<labelVars, runVars, moreVars>>
    \/ BackupProtocol /\ UNCHANGED <<labelVars, runVars, moreVars>>
    \/ ProtocolNext /\ UNCHANGED <<labelVars, runVars, moreVars>>

\* ======================================================== label assignment
MaxLabels == 2                  \* labels kept in the repository at a time
MaxVersion == 1                 \* rewrites of a cluster file
Files == 1..MaxFile

BackupType == {"full", "diff", "incr"}
NoLabel == [full |-> 0, type |-> "none", ts |-> 0]

\* <timestamp>F for a full backup, <label of the full>_<timestamp>D|I otherwise.
backupLabelFormat(type, backupLabelPrior, timestamp) ==
    IF type = "full" THEN [full |-> timestamp, type |-> type, ts |-> timestamp]
    ELSE [full |-> backupLabelPrior.full, type |-> type, ts |-> timestamp]

LabelTimestamp(label) == label.ts

\* Latest label among the backup directories and the history.
LabelLatest(labels, history) ==
    LET all == {LabelTimestamp(l) : l \in labels \cup history} IN
    IF all = {} THEN 0 ELSE CHOOSE x \in all : \A y \in all : y <= x

\* Variant: a label of the same second is not seen as taken.
LabelTakenStrict(latest, timestamp) == latest > timestamp

\* A timestamp is taken when a label of that second or a later one exists.
LabelTaken(latest, timestamp) == latest >= timestamp

backupLabelCreate(type, backupLabelPrior, timestamp, labels, history) ==
    LET latest == LabelLatest(labels, history) IN
    IF ~LabelTaken(latest, timestamp)
        THEN [status |-> "ok", label |-> backupLabelFormat(type, backupLabelPrior, timestamp), advanced |-> FALSE]
    ELSE IF ~LabelTaken(latest, timestamp + 1)
        THEN [status |-> "ok", label |-> backupLabelFormat(type, backupLabelPrior, timestamp + 1), advanced |-> TRUE]
    ELSE [status |-> "FormatError", label |-> NoLabel, advanced |-> TRUE]

NoLabelCall == [active |-> FALSE, type |-> "none", timestamp |-> 0, labels |-> {}, history |-> {}]
NoLabelOut == [status |-> "none", label |-> NoLabel, advanced |-> FALSE]

InitLabelIdle ==
    /\ backupList = {}
    /\ historyList = {}
    /\ clock = 1
    /\ labelCall = NoLabelCall
    /\ labelOut = NoLabelOut

\* backupLabelCreate() for a backup starting now; sleeps to the next second
\* when the label had to be advanced.
LabelCreate ==
    /\ clock < MaxTime
    /\ \E type \in BackupType :
       \E prior \in {l \in backupList : l.type = "full"} \cup {NoLabel} :
          /\ (type = "full") = (prior = NoLabel)
          /\ LET o == backupLabelCreate(type, prior, clock, backupList, historyList) IN
             /\ labelCall' = [active |-> TRUE, type |-> type, timestamp |-> clock, labels |-> backupList,
                              history |-> historyList]
             /\ labelOut' = o
             /\ clock' = IF o.status = "ok" /\ o.advanced THEN clock + 1 ELSE clock
    /\ UNCHANGED <<backupList, historyList>>

\* The backup that asked for the label creates its directory.
LabelUse ==
    /\ labelOut.status = "ok"
    /\ Cardinality(backupList) < MaxLabels
    /\ backupList' = backupList \cup {labelOut.label}
    /\ labelCall' = NoLabelCall
    /\ labelOut' = NoLabelOut
    /\ UNCHANGED <<historyList, clock>>

\* A completed backup leaves its manifest in backup.history; expire removes
\* its directory.
LabelExpire ==
    /\ \E l \in backupList :
          /\ backupList' = backupList \ {l}
          /\ historyList' = IF Cardinality(historyList) < MaxLabels THEN historyList \cup {l} ELSE historyList
    /\ labelCall' = NoLabelCall
    /\ labelOut' = NoLabelOut
    /\ UNCHANGED clock

\* Time passes, or the clock is set (time zone change, clock skew).
ClockSet ==
    /\ \E t \in 1..MaxTime : t # clock /\ clock' = t
    /\ labelCall' = NoLabelCall
    /\ labelOut' = NoLabelOut
    /\ UNCHANGED <<backupList, historyList>>

NextLabel ==
    \/ LabelCreate /\ UNCHANGED <<fileVars, runVars, moreVars>>
    \/ LabelUse /\ UNCHANGED <<fileVars, runVars, moreVars>>
    \/ LabelExpire /\ UNCHANGED <<fileVars, runVars, moreVars>>
    \/ ClockSet /\ UNCHANGED <<fileVars, runVars, moreVars>>

\* ============================================================ resume check
CompressType == {"none", "gz"}

\* The label of a full backup a diff or incr can name as its prior.
FindPrior == backupLabelFormat("full", NoLabel, 1)

\* The halted backup started after its prior, the new one after both.
FindHalted == LabelTimestamp(FindPrior) + 1

\* Fields of a manifest that the resume check reads.
ManifestData ==
    [backrestVersion : {"PROJECT_VERSION", "BOGUS"}, backupType : BackupType, backupLabelPrior : {NoLabel, FindPrior},
     backupOptionCompressType : CompressType]

NoManifestData ==
    [backrestVersion |-> "PROJECT_VERSION", backupType |-> "full", backupLabelPrior |-> NoLabel,
     backupOptionCompressType |-> "none"]

\* The latest backup directory: absent, empty, holding a manifest copy only
\* (a halted backup), or holding the final manifest.
NoFindDir == [state |-> "none", label |-> NoLabel, data |-> NoManifestData, files |-> FALSE]
FindDirs ==
    {NoFindDir}
        \cup {[state |-> "empty", label |-> backupLabelFormat("full", NoLabel, FindHalted), data |-> NoManifestData,
               files |-> FALSE]}
        \cup {[state |-> st, label |-> backupLabelFormat(d.backupType, FindPrior, FindHalted), data |-> d,
                files |-> TRUE] :
                 st \in {"partial", "complete"}, d \in ManifestData}

\* Variant: a partial backup of another type is accepted.
FindReasonAnyType(manifest, resume, manifestResume) ==
    IF ~resume THEN "resume is disabled"
    ELSE IF manifestResume.backrestVersion # manifest.backrestVersion THEN "new pgBackRest version does not match"
    ELSE IF manifestResume.backupLabelPrior # manifest.backupLabelPrior THEN "new prior backup label does not match"
    ELSE IF manifestResume.backupOptionCompressType # manifest.backupOptionCompressType
        THEN "new compression does not match"
    ELSE ""

\* Why a halted backup cannot be resumed ("" when it can).
FindReason(manifest, resume, manifestResume) ==
    IF ~resume THEN "resume is disabled"
    ELSE IF manifestResume.backrestVersion # manifest.backrestVersion THEN "new pgBackRest version does not match"
    ELSE IF manifestResume.backupType # manifest.backupType THEN "new backup type does not match"
    ELSE IF manifestResume.backupLabelPrior # manifest.backupLabelPrior THEN "new prior backup label does not match"
    ELSE IF manifestResume.backupOptionCompressType # manifest.backupOptionCompressType
        THEN "new compression does not match"
    ELSE ""

\* The manifest to resume (found), or none; an unusable halted backup is
\* removed with a warning.
backupResumeFind(manifest, resume, dir) ==
    IF dir.state # "partial" THEN [found |-> FALSE, reason |-> "", dir |-> dir]
    ELSE LET reason == FindReason(manifest, resume, dir.data) IN
         IF reason = "" THEN [found |-> TRUE, reason |-> "", dir |-> dir]
         ELSE [found |-> FALSE, reason |-> reason, dir |-> NoFindDir]

\* ============================================================ resume clean
ResumeLen == 1                  \* longest content of a resumed file, in bytes
MaxStamp == 2                   \* latest modification time

ResumeContents == UNION {[1..n -> Byte] : n \in 0..ResumeLen}
Timestamps == 0..MaxStamp

\* The copy starts one second before the latest time a file can carry.
CopyStart == MaxStamp - 1

\* A file entry of a manifest.
NoManifestFile == [present |-> FALSE, size |-> 0, timestamp |-> 0, checksum |-> NULL, reference |-> FALSE]
ManifestFile(size, timestamp, checksum, reference) ==
    [present |-> TRUE, size |-> size, timestamp |-> timestamp, checksum |-> checksum, reference |-> reference]

\* Entries of the manifest of the halted backup: built from what the file
\* was then; the checksum is there once the file was copied (a file of zero
\* size always carries the checksum of no bytes).
ManifestResumeFiles ==
    {NoManifestFile}
        \cup UNION {{ManifestFile(Len(c), t, k, r) :
                        t \in Timestamps, k \in (IF Len(c) = 0 THEN {Sha1(c)} ELSE {NULL, Sha1(c)}),
                        r \in BOOLEAN} : c \in ResumeContents}

\* Entries of the resumed backup directory.
NoEntry == [kind |-> "none", compress |-> "none", file |-> NoRepo]
ResumeEntries ==
    {NoEntry}
        \cup {[kind |-> k, compress |-> "none", file |-> NoRepo] : k \in {"link", "special", "path"}}
        \cup {[kind |-> "file", compress |-> ct, file |-> RepoOk(c)] : ct \in CompressType, c \in ResumeContents}
        \cup {[kind |-> "file", compress |-> "gz", file |-> RepoCorrupt]}

\* Entry of the new manifest for a file of the cluster; a reference carries
\* the checksum recorded by the prior backup.
manifestBuildFile(pgFile, pgTime, reference) ==
    IF ~pgFile.exists THEN NoManifestFile
    ELSE ManifestFile(Len(pgFile.data), pgTime, IF reference THEN Sha1(pgFile.data) ELSE NULL, reference)

\* Variant: a timestamp in the future is not looked for.
manifestBuildValidateNoCheck(delta, times) == delta

\* Delta is turned on when a file has a timestamp later than the copy start.
manifestBuildValidate(delta, times) == delta \/ \E t \in times : t > CopyStart

\* Variant: the sizes of the two manifests are not compared.
backupResumeCleanReasonNoSize(file, fileResume, compress, compressType, delta) ==
    IF compress # compressType THEN "mismatched compression type"
    ELSE IF ~file.present THEN "missing in manifest"
    ELSE IF file.reference THEN "reference in manifest"
    ELSE IF ~fileResume.present THEN "missing in resumed manifest"
    ELSE IF fileResume.reference THEN "reference in resumed manifest"
    ELSE IF fileResume.checksum = NULL THEN "no checksum in resumed manifest"
    ELSE IF ~delta /\ file.timestamp # fileResume.timestamp THEN "mismatched timestamp"
    ELSE IF file.size = 0 THEN "zero size"
    ELSE ""

\* Why a file of the resumed backup directory is removed ("" when kept).
backupResumeCleanReason(file, fileResume, compress, compressType, delta) ==
    IF compress # compressType THEN "mismatched compression type"
    ELSE IF ~file.present THEN "missing in manifest"
    ELSE IF file.reference THEN "reference in manifest"
    ELSE IF ~fileResume.present THEN "missing in resumed manifest"
    ELSE IF fileResume.reference THEN "reference in resumed manifest"
    ELSE IF fileResume.checksum = NULL THEN "no checksum in resumed manifest"
    ELSE IF file.size # fileResume.size THEN "mismatched size"
    ELSE IF ~delta /\ file.timestamp # fileResume.timestamp THEN "mismatched timestamp"
    ELSE IF file.size = 0 THEN "zero size"
    ELSE ""

\* Variant: the checksum of a kept file is not taken over.
backupResumeCleanNoChecksum(entry, file, fileResume, compressType, delta) ==
    IF entry.kind = "none" THEN [entry |-> entry, file |-> file, reason |-> ""]
    ELSE IF entry.kind # "file" THEN [entry |-> NoEntry, file |-> file, reason |-> entry.kind]
    ELSE LET reason == backupResumeCleanReason(file, fileResume, entry.compress, compressType, delta) IN
         IF reason # "" THEN [entry |-> NoEntry, file |-> file, reason |-> reason]
         ELSE [entry |-> entry, file |-> file, reason |-> ""]

\* Variant: a file that has become a reference is left in the directory.
backupResumeCleanKeepReference(entry, file, fileResume, compressType, delta) ==
    IF entry.kind = "none" THEN [entry |-> entry, file |-> file, reason |-> ""]
    ELSE IF entry.kind # "file" THEN [entry |-> NoEntry, file |-> file, reason |-> entry.kind]
    ELSE LET reason == backupResumeCleanReason(file, fileResume, entry.compress, compressType, delta) IN
         IF reason = "reference in manifest" THEN [entry |-> entry, file |-> file, reason |-> ""]
         ELSE IF reason # "" THEN [entry |-> NoEntry, file |-> file, reason |-> reason]
         ELSE [entry |-> entry, file |-> [file EXCEPT !.checksum = fileResume.checksum], reason |-> ""]

\* The clean of one entry: links, special files and paths that are not in
\* the manifest go, a file goes unless it can be resumed, and the manifest
\* takes the checksum of a file that is kept.
backupResumeClean(entry, file, fileResume, compressType, delta) ==
    IF entry.kind = "none" THEN [entry |-> entry, file |-> file, reason |-> ""]
    ELSE IF entry.kind # "file" THEN [entry |-> NoEntry, file |-> file, reason |-> entry.kind]
    ELSE LET reason == backupResumeCleanReason(file, fileResume, entry.compress, compressType, delta) IN
         IF reason # "" THEN [entry |-> NoEntry, file |-> file, reason |-> reason]
         ELSE [entry |-> entry, file |-> [file EXCEPT !.checksum = fileResume.checksum], reason |-> ""]

\* A file gets a job unless it is a reference that needs no check.
backupProcessQueue(file, delta) == file.present /\ (~file.reference \/ (delta /\ file.size # 0))

\* Variant: the copy is not limited to the size in the manifest.
backupJobParamsWholeFile(file, delta) ==
    [pgFileIgnoreMissing |-> TRUE, pgFileSize |-> file.size, pgFileCopyExactSize |-> FALSE,
     pgFileChecksum |-> file.checksum, pgFileChecksumPage |-> FALSE, repoFileHasReference |-> file.reference,
     delta |-> delta]

\* Parameters of the job of a file.
backupJobParams(file, delta) ==
    [pgFileIgnoreMissing |-> TRUE, pgFileSize |-> file.size, pgFileCopyExactSize |-> TRUE,
     pgFileChecksum |-> file.checksum, pgFileChecksumPage |-> FALSE, repoFileHasReference |-> file.reference,
     delta |-> delta]

\* ===================================================== diff / incr on a prior
MaxTimeline == 2                \* highest timeline of a WAL segment

\* Options a diff or incr backup may not change, as asked for and as the
\* manifest of the prior backup records them (checksum-page is not recorded
\* by a backup made before page checksums were known).
PriorOptions ==
    {o \in [compressType : CompressType, hardlink : BOOLEAN, checksumPageSet : BOOLEAN, checksumPage : BOOLEAN] :
        ~o.checksumPageSet => ~o.checksumPage}

\* Files of the prior manifest: what the file was when the prior backup
\* copied it.
ManifestPriorFiles ==
    {NoManifestFile} \cup {ManifestFile(Len(c), t, Sha1(c), FALSE) : c \in ResumeContents, t \in Timestamps}

\* Variant: hardlink is taken as asked for.
backupBuildIncrPriorKeepHardlink(opt, prior) ==
    [opt |-> [compressType |-> prior.compressType, hardlink |-> opt.hardlink,
              checksumPage |-> prior.checksumPageSet /\ prior.checksumPage],
     warn |-> (IF opt.compressType # prior.compressType THEN {"compress-type"} ELSE {})
                  \cup (IF prior.checksumPageSet /\ opt.checksumPage # prior.checksumPage
                            THEN {"checksum-page"} ELSE {})]

\* The options are reset to those of the prior backup, each with a warning
\* when it differs; checksum-page is turned off without a warning when the
\* prior backup does not record it.
backupBuildIncrPrior(opt, prior) ==
    [opt |-> [compressType |-> prior.compressType, hardlink |-> prior.hardlink,
              checksumPage |-> prior.checksumPageSet /\ prior.checksumPage],
     warn |-> (IF opt.compressType # prior.compressType THEN {"compress-type"} ELSE {})
                  \cup (IF opt.hardlink # prior.hardlink THEN {"hardlink"} ELSE {})
                  \cup (IF prior.checksumPageSet /\ opt.checksumPage # prior.checksumPage
                            THEN {"checksum-page"} ELSE {})]

\* Variant: the timelines are not compared.
manifestBuildIncrDeltaNoTimeline(delta, timeline, timelinePrior) == delta

\* Delta is turned on when the WAL of the backup starts on another timeline
\* than that of the prior backup.
manifestBuildIncrDelta(delta, timeline, timelinePrior) == delta \/ timeline # timelinePrior

\* A file becomes a reference to the prior backup when it has the size it
\* had then and, delta being off, the timestamp too.
manifestBuildIncr(file, filePrior, delta) ==
    IF /\ file.present
       /\ filePrior.present
       /\ file.size = filePrior.size
       /\ delta \/ file.size = 0 \/ file.timestamp = filePrior.timestamp
        THEN [file EXCEPT !.reference = TRUE, !.checksum = filePrior.checksum]
        ELSE file

\* =================================================== backup from a standby
\* Variant: the primary is read when the file is shorter on the standby.
backupJobSourceFallBack(backupStandby, file) ==
    IF backupStandby /\ ~file.master /\ ~(file.standby.exists /\ Len(file.standby.data) < Len(file.primary))
        THEN "standby"
        ELSE "primary"

\* Host a file is read from: the standby when the backup is made from the
\* standby, except for the files that must come from the primary.
backupJobSource(backupStandby, file) == IF backupStandby /\ ~file.master THEN "standby" ELSE "primary"

\* ========================================================= page checksums
MaxPages == 4                   \* most pages of a relation file
ProcessMax == 2                 \* worker processes of the dispatcher
MaxJobs == 3                    \* file jobs of a backup
HelperProcessMax == 1           \* process-max of the command the helper serves: local cache of one more
PgPathTotal == 1                \* indexes of the pg-path option (scaled): remote cache of PgPathTotal + 1
MaxProc == 2                    \* most processes the protocol helper starts in a run
UIntModulus == 65536            \* unsigned int arithmetic wraps at this value (scaled from 2^32)

\* Variant: consecutive pages are not put into one range.
pageChecksumErrorNoRange(pages) ==
    LET list[n \in 0..Len(pages)] ==
            IF n = 0 THEN <<>>
            ELSE LET p == pages[n]
                     invalid == ~p.pdUpperZero /\ ~p.lsnAboveLimit /\ ~p.checksumOk
                 IN IF invalid THEN Append(list[n - 1], <<n - 1>>) ELSE list[n - 1]
    IN list[Len(pages)]

\* The error list of the page checksum filter, built page after page (list[n]
\* is the list after n pages): a page is checked unless it is new (pd_upper
\* = 0) or was written after the LSN limit; a page that fails is put with
\* the page before it when that one failed too.  An entry is <<page>> or
\* <<first, last>>.
pageChecksumError(pages) ==
    LET list[n \in 0..Len(pages)] ==
            IF n = 0 THEN <<>>
            ELSE LET p == pages[n]
                     pageNo == n - 1
                     invalid == ~p.pdUpperZero /\ ~p.lsnAboveLimit /\ ~p.checksumOk
                     error == list[n - 1]
                     last == IF error = <<>> THEN <<>> ELSE error[Len(error)]
                 IN IF ~invalid THEN error
                    ELSE IF error # <<>> /\ last[Len(last)] = pageNo - 1
                             THEN [error EXCEPT ![Len(error)] = <<last[1], pageNo>>]
                             ELSE Append(error, <<pageNo>>)
    IN list[Len(pages)]

\* Variant: bytes after the last whole page do not make the file invalid.
pageChecksumAlignIgnored(pages, trailing) ==
    LET error == pageChecksumError(pages) IN
    [valid |-> error = <<>>, align |-> ~trailing, error |-> error]

\* Result of the filter for a file of whole pages followed or not by
\* trailing bytes.
pageChecksum(pages, trailing) ==
    LET error == pageChecksumError(pages) IN
    [valid |-> error = <<>> /\ ~trailing, align |-> ~trailing, error |-> error]

\* Variant: a file that is not valid ends the backup.
backupJobResultPageFatal(result) ==
    [checksumPage |-> result.valid, checksumPageError |-> result.error, warn |-> {},
     error |-> IF result.valid THEN "" ELSE "ChecksumPageError"]

\* What the result of the filter does to the manifest entry and the log.
backupJobResultPage(result) ==
    [checksumPage |-> result.valid, checksumPageError |-> result.error,
     warn |-> IF result.valid THEN {}
              ELSE IF ~result.align THEN {"page misalignment"}
              ELSE {"invalid page checksums found"},
     error |-> ""]

\* ======================================================= options of a run
ArchiveTimeout == 2             \* archive-timeout, in seconds

RunOptions ==
    {[type |-> t, online |-> FALSE, force |-> f, pid |-> p, archiveCheck |-> FALSE] :
        t \in BackupType, f \in BOOLEAN, p \in BOOLEAN}
        \cup {[type |-> t, online |-> TRUE, force |-> FALSE, pid |-> TRUE, archiveCheck |-> a] :
                 t \in BackupType, a \in BOOLEAN}

\* ---------------------------------------------------------- idle states
InitMoreIdle ==
    /\ findRepo = NoFindDir
    /\ findCall = [active |-> FALSE, resume |-> FALSE, manifest |-> NoManifestData, dirBefore |-> NoFindDir]
    /\ findOut = [status |-> "none", found |-> FALSE, reason |-> "", label |-> NoLabel]
    /\ resumeIn = [delta |-> FALSE, compressType |-> "none", pgFile |-> NoFile, pgTime |-> 0, otherTime |-> 0,
            file |-> NoManifestFile, fileResume |-> NoManifestFile, entry |-> NoEntry]
    /\ resumeDir = NoEntry
    /\ resumeFile = NoManifestFile
    /\ resumeOut = [status |-> "none", delta |-> FALSE, warnDelta |-> FALSE, reason |-> "", job |-> NoRes,
            warnReCopy |-> FALSE]
    /\ priorIn = [type |-> "none", opt |-> [compressType |-> "none", hardlink |-> FALSE, checksumPage |-> FALSE],
            prior |-> [compressType |-> "none", hardlink |-> FALSE, checksumPageSet |-> FALSE,
                    checksumPage |-> FALSE], delta |-> FALSE, timeline |-> 1, timelinePrior |-> 1,
                            pgFile |-> NoFile, pgTime |-> 0, filePrior |-> NoManifestFile, resume |-> FALSE]
    /\ priorOut = [status |-> "none", opt |-> [compressType |-> "none", hardlink |-> FALSE,
            checksumPage |-> FALSE], delta |-> FALSE, warn |-> {}, file |-> NoManifestFile, job |-> NoRes,
                    entry |-> NoEntry]
    /\ standby = [active |-> FALSE, backupStandby |-> FALSE, file |-> [primary |-> <<>>, standby |-> NoFile,
            master |-> FALSE],
                  source |-> "none", job |-> NoRes, manifest |-> NoManifestFile]
    /\ page = [status |-> "none", checksumPage |-> FALSE, pages |-> <<>>, trailing |-> FALSE, job |-> NoRes,
               manifest |-> [checksumPageSet |-> FALSE, checksumPage |-> FALSE, checksumPageError |-> <<>>,
                             checksum |-> NULL],
               warn |-> {}, error |-> "", committed |-> FALSE]
    /\ parallel = [queue |-> 1..MaxJobs,
                   worker |-> [w \in 1..ProcessMax |->
                                  [jobs |-> <<>>, response |-> "none", result |-> ResultInit, error |-> "",
                                   closeSent |-> FALSE]],
                   manifest |-> [j \in 1..MaxJobs |->
                                    [size |-> j, repoSize |-> 0,
                                     checksum |-> IF j % 2 = 1 THEN Sha1(<<j>>) ELSE NULL,
                                     reference |-> j % 2 = 1]],
                   result |-> [j \in 1..MaxJobs |-> ResultInit],
                   fileRemove |-> {}, sizeCopied |-> 0, log |-> <<>>, applied |-> {}, error |-> ""]
    /\ manifestIo = [status |-> "none", textLoad |-> <<>>, text |-> <<>>, manifest |-> <<>>, prior |-> <<>>,
                     find |-> <<>>]
    /\ db = [status |-> "none", version |-> "none", backupStandby |-> FALSE, startFast |-> FALSE, calls |-> <<>>,
             copied |-> 0, error |-> ""]
    /\ helper = [memContext |-> FALSE, clientRemoteSize |-> 0,
                 clientRemote |-> [i \in 0..PgPathTotal |-> [exec |-> 0, client |-> 0]], clientLocalSize |-> 0,
                 clientLocal |-> [i \in 0..HelperProcessMax |-> [exec |-> 0, client |-> 0]],
                 proc |-> [p \in 1..MaxProc |-> [state |-> "none", cache |-> "none", idx |-> 0,
                                                 storageType |-> "none"]],
                 last |-> [fn |-> "none", storageType |-> "none", hostId |-> 0, protocolId |-> 0, idx |-> 0,
                           inBounds |-> TRUE, client |-> 0, started |-> 0, error |-> ""]]

InitFileIdle ==
    /\ pg = NoFile
    /\ repo = NoRepo
    /\ repoFileCompress = "none"
    /\ cipherType = "none"
    /\ call = [active |-> FALSE, p |-> [pgFileIgnoreMissing |-> FALSE, pgFileSize |-> 0,
            pgFileCopyExactSize |-> FALSE, pgFileChecksum |-> NULL, pgFileChecksumPage |-> FALSE,
                    repoFileHasReference |-> FALSE, delta |-> FALSE], repoBefore |-> NoRepo]
    /\ res = NoRes
    /\ serverWrite = NoOut

InitRunIdle ==
    /\ phase = "idle"
    /\ runLabel = NoLabel
    /\ runType = "none"
    /\ backupDir = <<>>
    /\ backupInfo = {}
    /\ todo = {}
    /\ runError = ""
    /\ copyStarted = FALSE
    /\ cluster = [f \in Files |-> 0]
    /\ runOpt = [type |-> "none", online |-> FALSE, force |-> FALSE, pid |-> FALSE, archiveCheck |-> FALSE]
    /\ runWarn = {}
    /\ archiveWait = 0
    /\ walArchived = FALSE

\* Nothing has run yet.
InitIdle == InitFileIdle /\ InitLabelIdle /\ InitRunIdle /\ InitMoreIdle

InitSpecFile ==
    /\ pg = NoFile
    /\ repo = NoRepo
    /\ repoFileCompress \in {"none", "gz"}
    /\ cipherType \in {"none", "aes-256-cbc"}
    /\ call = [active |-> FALSE, p |-> [pgFileIgnoreMissing |-> FALSE, pgFileSize |-> 0,
            pgFileCopyExactSize |-> FALSE, pgFileChecksum |-> NULL, pgFileChecksumPage |-> FALSE,
                    repoFileHasReference |-> FALSE, delta |-> FALSE], repoBefore |-> NoRepo]
    /\ res = NoRes
    /\ serverWrite = NoOut
    /\ InitLabelIdle
    /\ InitRunIdle
    /\ InitMoreIdle

SpecFile == InitSpecFile /\ [][NextFile]_vars

SpecLabel == InitIdle /\ [][NextLabel]_vars

\* ============================================================ orchestrator
\* Contents of a backup directory: the manifest copy saved while the backup
\* runs, the final manifest, the files stored in it, and the file versions
\* its manifest describes.
DirNew(type, prior, snap, ref) ==
    [type |-> type, prior |-> prior, manifestCopy |-> TRUE, manifest |-> FALSE, files |-> {}, snap |-> snap,
     ref |-> ref]

Labels == DOMAIN backupDir
Partial(l) == backupDir[l].manifestCopy /\ ~backupDir[l].manifest
Partials == {l \in Labels : Partial(l)}
FullBackups == {l \in backupInfo : l.type = "full"}

LatestOf(S) == CHOOSE l \in S : \A m \in S : m.ts <= l.ts

\* Variant: a diff is built on the latest backup, like an incr.
PriorOfLatest(type) ==
    IF type = "full" THEN NoLabel
    ELSE LatestOf(backupInfo)

\* Prior of a new backup: none for a full, the latest full for a diff, the
\* latest backup for an incr.
PriorOf(type) ==
    IF type = "full" THEN NoLabel
    ELSE IF type = "diff" THEN LatestOf(FullBackups)
    ELSE LatestOf(backupInfo)

\* A diff or incr without a prior full is run as a full.
TypeCoerce(type) == IF FullBackups = {} THEN "full" ELSE type

\* Variant: the change of type is not logged.
TypeCoerceWarnNone(type) == {}

\* The change of type is logged as a warning.
TypeCoerceWarn(type) == IF TypeCoerce(type) # type THEN {"no prior backup exists"} ELSE {}

\* Variant: force is not looked at.
backupInitPostmasterNoForce(opt) == IF ~opt.online /\ opt.pid THEN "error" ELSE "ok"

\* An offline backup that finds postmaster.pid is an error unless forced.
backupInitPostmaster(opt) ==
    IF ~opt.online /\ opt.pid THEN (IF opt.force THEN "warn" ELSE "error") ELSE "ok"

\* The archive is checked for the WAL of an online backup when asked for.
ArchiveChecked(opt) == opt.online /\ opt.archiveCheck

\* Variant: the wait for a segment never gives up.
walSegmentFindTimeoutNever(waited) == FALSE

\* The wait for a segment gives up after archive-timeout.
walSegmentFindTimeout(waited) == waited >= ArchiveTimeout

DirPut(dir, l, d) == [m \in (DOMAIN dir) \cup {l} |-> IF m = l THEN d ELSE dir[m]]
DirRemove(dir, S) == [m \in (DOMAIN dir) \ S |-> dir[m]]

\* References of a new manifest: a file that is as the prior backup has it
\* refers to the backup that stores it.
ManifestReference(type, prior, dir, snap) ==
    [f \in Files |->
        IF type = "full" \/ snap[f] # dir[prior].snap[f] THEN NoLabel
        ELSE IF dir[prior].ref[f] # NoLabel THEN dir[prior].ref[f]
        ELSE prior]

\* Variant: every file is queued.
FilesToCopyAll(l) == Files

\* Files a backup has to store: all of them for a full, those that differ
\* from the prior's manifest otherwise.
FilesToCopy(l) ==
    IF backupDir[l].type = "full" THEN Files
    ELSE {f \in Files : cluster[f] # backupDir[backupDir[l].prior].snap[f]}

\* Variant: the directory of a failed run is removed.
BackupDirOnErrorRemove(dir, l) == DirRemove(dir, {l})

\* Repository after a run ended in an error: left as the run wrote it.
BackupDirOnError(dir, l) == dir

\* The process exits: its options and its log go with it.
RunExit ==
    /\ phase' = "idle"
    /\ todo' = {}
    /\ runOpt' = [type |-> "none", online |-> FALSE, force |-> FALSE, pid |-> FALSE, archiveCheck |-> FALSE]
    /\ runWarn' = {}
    /\ archiveWait' = 0
    /\ walArchived' = FALSE

RunEnd(error) ==
    /\ RunExit
    /\ runError' = error

RunOptSame == UNCHANGED <<runOpt, runWarn, archiveWait, walArchived>>

\* cmdBackup() starts: options loaded, backup type decided.
RunBegin ==
    /\ phase = "idle"
    /\ clock < MaxTime
    /\ \E opt \in RunOptions :
          /\ runOpt' = opt
          /\ runType' = TypeCoerce(opt.type)
          /\ runWarn' = TypeCoerceWarn(opt.type)
    /\ phase' = "init"
    /\ runLabel' = NoLabel
    /\ runError' = ""
    /\ copyStarted' = FALSE
    /\ todo' = {}
    /\ UNCHANGED <<backupDir, backupInfo, cluster, clock, archiveWait, walArchived>>

\* Offline with postmaster.pid present and no force.
RunPostmasterRunning ==
    /\ phase = "init"
    /\ backupInitPostmaster(runOpt) = "error"
    /\ RunEnd("PostmasterRunningError")
    /\ UNCHANGED <<runLabel, runType, backupDir, backupInfo, copyStarted, cluster, clock>>

\* The checks of backupInit() passed: the backup is started on the cluster
\* (pg_start_backup() when online), before the repository is looked at for a
\* backup to resume.
RunStart ==
    /\ phase = "init"
    /\ backupInitPostmaster(runOpt) # "error"
    /\ phase' = "start"
    /\ runWarn' = runWarn \cup (IF backupInitPostmaster(runOpt) = "warn"
                                    THEN {"postmaster.pid exists but --force was passed"} ELSE {})
    /\ UNCHANGED <<runLabel, runType, backupDir, backupInfo, todo, runError, copyStarted, cluster, clock, runOpt,
                   archiveWait, walArchived>>

\* The manifest is built, then a partial backup of the same type and prior
\* is resumed under its label; any other partial is removed and a new label
\* is created.  The manifest copy is saved before processing starts.
RunPrepare ==
    /\ phase = "start"
    /\ LET prior == PriorOf(runType)
           resumable == {l \in Partials : backupDir[l].type = runType /\ backupDir[l].prior = prior}
           warn == runWarn
       IN
       IF resumable # {}
           THEN LET l == LatestOf(resumable)
                    kept == DirRemove(backupDir, Partials \ {l})
                IN
                /\ runLabel' = l
                /\ backupDir' = DirPut(kept, l,
                                       [backupDir[l] EXCEPT !.snap = cluster,
                                                            !.ref = ManifestReference(runType, prior, kept, cluster)])
                /\ phase' = "prepared"
                /\ runWarn' = warn
                /\ UNCHANGED <<runError, clock, todo, runOpt, archiveWait, walArchived>>
           ELSE LET kept == DirRemove(backupDir, Partials)
                    o == backupLabelCreate(runType, prior, clock, DOMAIN kept, historyList)
                IN
                IF o.status = "ok"
                    THEN /\ runLabel' = o.label
                         /\ backupDir' = DirPut(kept, o.label,
                                                DirNew(runType, prior, cluster,
                                                       ManifestReference(runType, prior, kept, cluster)))
                         /\ phase' = "prepared"
                         /\ clock' = IF o.advanced THEN clock + 1 ELSE clock
                         /\ runWarn' = warn
                         /\ UNCHANGED <<runError, todo, runOpt, archiveWait, walArchived>>
                    ELSE /\ backupDir' = kept
                         /\ RunEnd("FormatError")
                         /\ UNCHANGED <<runLabel, clock>>
    /\ UNCHANGED <<runType, backupInfo, copyStarted, cluster>>

\* backupProcess() builds the job queue; nothing to copy is an error.
RunQueue ==
    /\ phase = "prepared"
    /\ copyStarted' = TRUE
    /\ IF FilesToCopy(runLabel) = {}
           THEN /\ RunEnd("FileMissingError")
                /\ backupDir' = BackupDirOnError(backupDir, runLabel)
           ELSE /\ phase' = "copy"
                /\ todo' = FilesToCopy(runLabel)
                /\ RunOptSame
                /\ UNCHANGED <<runError, backupDir>>
    /\ UNCHANGED <<runLabel, runType, backupInfo, cluster, clock>>

\* One file job is done and its result applied.
RunCopy ==
    /\ phase = "copy"
    /\ \E f \in todo :
          /\ todo' = todo \ {f}
          /\ backupDir' = [backupDir EXCEPT ![runLabel].files = @ \cup {f}]
    /\ RunOptSame
    /\ UNCHANGED <<phase, runLabel, runType, backupInfo, runError, copyStarted, cluster, clock>>

\* Variant: the backup is stopped while jobs are left.
RunStopEarly ==
    /\ phase = "copy"
    /\ phase' = "archive"
    /\ archiveWait' = 0
    /\ \E archived \in BOOLEAN :
          /\ ~ArchiveChecked(runOpt) => ~archived
          /\ walArchived' = archived
    /\ UNCHANGED <<runLabel, runType, backupDir, backupInfo, todo, runError, copyStarted, cluster, clock, runOpt,
                   runWarn>>

\* All jobs done: stop backup, write backup_label, go on to the archive
\* check; the WAL of the backup is in the archive by then, or not yet.
RunStop ==
    /\ phase = "copy"
    /\ todo = {}
    /\ phase' = "archive"
    /\ archiveWait' = 0
    /\ \E archived \in BOOLEAN :
          /\ ~ArchiveChecked(runOpt) => ~archived
          /\ walArchived' = archived
    /\ UNCHANGED <<runLabel, runType, backupDir, backupInfo, todo, runError, copyStarted, cluster, clock, runOpt,
                   runWarn>>

\* The archive check waits for a segment.
RunArchiveWait ==
    /\ phase = "archive"
    /\ ArchiveChecked(runOpt)
    /\ ~walArchived
    /\ ~walSegmentFindTimeout(archiveWait)
    /\ archiveWait < ArchiveTimeout
    /\ archiveWait' = archiveWait + 1
    /\ UNCHANGED <<phase, runLabel, runType, backupDir, backupInfo, todo, runError, copyStarted, cluster, clock,
                   runOpt, runWarn, walArchived>>

\* A segment reaches the archive while the check waits.
WalArchive ==
    /\ phase = "archive"
    /\ ArchiveChecked(runOpt)
    /\ ~walArchived
    /\ walArchived' = TRUE
    /\ UNCHANGED <<phase, runLabel, runType, backupDir, backupInfo, todo, runError, copyStarted, cluster, clock,
                   runOpt, runWarn, archiveWait>>

\* A WAL segment did not reach the archive in time.
RunArchiveTimeout ==
    /\ phase = "archive"
    /\ ArchiveChecked(runOpt)
    /\ ~walArchived
    /\ walSegmentFindTimeout(archiveWait)
    /\ RunEnd("ArchiveTimeoutError")
    /\ backupDir' = BackupDirOnError(backupDir, runLabel)
    /\ UNCHANGED <<runLabel, runType, backupInfo, copyStarted, cluster, clock>>

\* The segments were found, or the archive is not checked.
RunArchiveOk ==
    /\ phase = "archive"
    /\ ArchiveChecked(runOpt) => walArchived
    /\ phase' = "finalCopy"
    /\ RunOptSame
    /\ UNCHANGED <<runLabel, runType, backupDir, backupInfo, todo, runError, copyStarted, cluster, clock>>

\* backupComplete(): final save of the manifest copy, ...
RunSaveCopy ==
    /\ phase = "finalCopy"
    /\ backupDir' = [backupDir EXCEPT ![runLabel].manifestCopy = TRUE]
    /\ phase' = "finalManifest"
    /\ RunOptSame
    /\ UNCHANGED <<runLabel, runType, backupInfo, todo, runError, copyStarted, cluster, clock>>

\* ... then the final manifest, ...
RunSaveManifest ==
    /\ phase = "finalManifest"
    /\ backupDir' = [backupDir EXCEPT ![runLabel].manifest = TRUE]
    /\ phase' = "finalInfo"
    /\ RunOptSame
    /\ UNCHANGED <<runLabel, runType, backupInfo, todo, runError, copyStarted, cluster, clock>>

\* ... then backup.info lists the label and the process exits.
RunInfoSave ==
    /\ phase = "finalInfo"
    /\ backupInfo' = backupInfo \cup {runLabel}
    /\ RunExit
    /\ UNCHANGED <<runLabel, runType, backupDir, runError, copyStarted, cluster, clock>>

\* The process is killed.
RunCrash ==
    /\ phase # "idle"
    /\ RunEnd("TermError")
    /\ UNCHANGED <<runLabel, runType, backupDir, backupInfo, copyStarted, cluster, clock>>

\* The cluster rewrites a file.
ClusterWrite ==
    /\ phase = "idle"
    /\ \E f \in Files :
          /\ cluster[f] < MaxVersion
          /\ cluster' = [cluster EXCEPT ![f] = @ + 1]
    /\ RunOptSame
    /\ UNCHANGED <<phase, runLabel, runType, backupDir, backupInfo, todo, runError, copyStarted, clock>>

Tick ==
    /\ phase = "idle"
    /\ clock < MaxTime
    /\ clock' = clock + 1
    /\ UNCHANGED runVars

RunIdle == UNCHANGED <<fileVars, backupList, historyList, labelCall, labelOut, moreVars>>

NextRun ==
    \/ RunBegin /\ RunIdle
    \/ RunPostmasterRunning /\ RunIdle
    \/ RunStart /\ RunIdle
    \/ RunPrepare /\ RunIdle
    \/ RunQueue /\ RunIdle
    \/ RunCopy /\ RunIdle
    \/ RunStop /\ RunIdle
    \/ RunArchiveWait /\ RunIdle
    \/ WalArchive /\ RunIdle
    \/ RunArchiveTimeout /\ RunIdle
    \/ RunArchiveOk /\ RunIdle
    \/ RunSaveCopy /\ RunIdle
    \/ RunSaveManifest /\ RunIdle
    \/ RunInfoSave /\ RunIdle
    \/ RunCrash /\ RunIdle
    \/ ClusterWrite /\ RunIdle
    \/ Tick /\ RunIdle

SpecRun == InitIdle /\ [][NextRun]_vars

\* The archive check is a loop of the process: it goes on until it ends.
\* Runs against a cluster that is not written to between them.
NextRunLive ==
    \/ RunBegin /\ RunIdle
    \/ RunPostmasterRunning /\ RunIdle
    \/ RunStart /\ RunIdle
    \/ RunPrepare /\ RunIdle
    \/ RunQueue /\ RunIdle
    \/ RunCopy /\ RunIdle
    \/ RunStop /\ RunIdle
    \/ RunArchiveWait /\ RunIdle
    \/ WalArchive /\ RunIdle
    \/ RunArchiveTimeout /\ RunIdle
    \/ RunArchiveOk /\ RunIdle
    \/ RunSaveCopy /\ RunIdle
    \/ RunSaveManifest /\ RunIdle
    \/ RunInfoSave /\ RunIdle
    \/ RunCrash /\ RunIdle
    \/ Tick /\ RunIdle

SpecRunLive ==
    /\ InitIdle
    /\ [][NextRunLive]_vars
    /\ WF_vars(RunArchiveWait /\ RunIdle)
    /\ WF_vars(RunArchiveTimeout /\ RunIdle)

\* ------------------------------------------------- resume check actions
\* An earlier run left its directory behind, or the directory is removed.
FindRepoPut ==
    /\ ~findCall.active
    /\ \E d \in FindDirs : findRepo' = d
    /\ findRepo' # findRepo
    /\ UNCHANGED <<findCall, findOut>>

\* backupResume() looks for a halted backup.
BackupResumeFind ==
    /\ ~findCall.active
    /\ \E resume \in BOOLEAN, manifest \in ManifestData :
          LET o == backupResumeFind(manifest, resume, findRepo) IN
          /\ findCall' = [active |-> TRUE, resume |-> resume, manifest |-> manifest, dirBefore |-> findRepo]
          /\ findOut' = [status |-> "find", found |-> o.found, reason |-> o.reason, label |-> NoLabel]
          /\ findRepo' = o.dir

\* The backup goes on: under the label of the halted backup when one was
\* found, else under a new label with a new directory.
BackupLabelSet ==
    /\ findCall.active
    /\ findOut.status = "find"
    /\ IF findOut.found
           THEN /\ findOut' = [findOut EXCEPT !.status = "resume", !.label = findRepo.label]
                /\ UNCHANGED findRepo
           ELSE LET labels == IF findRepo.state = "none" THEN {} ELSE {findRepo.label}
                    o == backupLabelCreate(findCall.manifest.backupType, FindPrior, (FindHalted + 1), labels, {})
                IN
                /\ o.status = "ok"
                /\ findOut' = [findOut EXCEPT !.status = "fresh", !.label = o.label]
                /\ findRepo' = [state |-> "partial", label |-> o.label, data |-> findCall.manifest, files |-> FALSE]
    /\ UNCHANGED findCall

FindNext ==
    /\ findCall.active
    /\ findOut.status # "find"
    /\ findCall' = [active |-> FALSE, resume |-> FALSE, manifest |-> NoManifestData, dirBefore |-> NoFindDir]
    /\ findOut' = [status |-> "none", found |-> FALSE, reason |-> "", label |-> NoLabel]
    /\ UNCHANGED findRepo

NextFind ==
    \/ FindRepoPut /\ UNCHANGED <<fileVars, labelVars, runVars, resumeIn, resumeDir, resumeFile, resumeOut,
            priorIn, priorOut, standby, page, parallel, manifestIo, db, helper>>
    \/ BackupResumeFind /\ UNCHANGED <<fileVars, labelVars, runVars, resumeIn, resumeDir, resumeFile, resumeOut,
            priorIn, priorOut, standby, page, parallel, manifestIo, db, helper>>
    \/ BackupLabelSet /\ UNCHANGED <<fileVars, labelVars, runVars, resumeIn, resumeDir, resumeFile, resumeOut,
            priorIn, priorOut, standby, page, parallel, manifestIo, db, helper>>
    \/ FindNext /\ UNCHANGED <<fileVars, labelVars, runVars, resumeIn, resumeDir, resumeFile, resumeOut, priorIn,
            priorOut, standby, page, parallel, manifestIo, db, helper>>

SpecFind == InitIdle /\ [][NextFind]_vars

\* ------------------------------------------------- resume clean actions
\* The manifest is built and validated, then the directory of the halted
\* backup is cleaned.
BackupResumeClean ==
    /\ resumeOut.status = "none"
    /\ \E delta \in BOOLEAN, compressType \in CompressType, otherTime \in {CopyStart, MaxStamp},
          pgFile \in {NoFile} \cup {File(c) : c \in ResumeContents}, pgTime \in Timestamps, reference \in BOOLEAN,
          fileResume \in ManifestResumeFiles, entry \in ResumeEntries :
          /\ ~pgFile.exists => (pgTime = 0 /\ ~reference)
          /\ LET file == manifestBuildFile(pgFile, pgTime, reference)
                 times == {otherTime} \cup (IF pgFile.exists THEN {pgTime} ELSE {})
                 deltaNow == manifestBuildValidate(delta, times)
                 o == backupResumeClean(entry, file, fileResume, compressType, deltaNow)
             IN
             /\ resumeIn' = [delta |-> delta, compressType |-> compressType, pgFile |-> pgFile, pgTime |-> pgTime,
                             otherTime |-> otherTime, file |-> file, fileResume |-> fileResume, entry |-> entry]
             /\ resumeDir' = o.entry
             /\ resumeFile' = o.file
             /\ resumeOut' = [[status |-> "none", delta |-> FALSE, warnDelta |-> FALSE, reason |-> "",
                     job |-> NoRes, warnReCopy |-> FALSE] EXCEPT !.status = "clean", !.delta = deltaNow,
                                                 !.warnDelta = (deltaNow /\ ~delta), !.reason = o.reason]

\* The job of the file is run and its result applied to the manifest.
BackupResumeJob ==
    /\ resumeOut.status = "clean"
    /\ IF backupProcessQueue(resumeFile, resumeOut.delta)
           THEN LET o == BackupFile(backupJobParams(resumeFile, resumeOut.delta), resumeIn.pgFile,
                                    IF resumeDir.kind = "file" THEN resumeDir.file ELSE NoRepo,
                                    resumeIn.compressType, "none")
                IN
                /\ resumeOut' = [resumeOut EXCEPT !.status = "job", !.job = [status |-> o.status, r |-> o.r],
                                                  !.warnReCopy = (o.r.backupCopyResult = "recopy")]
                /\ resumeDir' = IF o.repo.state = "none" \/ resumeFile.reference THEN resumeDir
                                ELSE [kind |-> "file", compress |-> resumeIn.compressType, file |-> o.repo]
                /\ resumeFile' = IF o.r.backupCopyResult = "skip" THEN NoManifestFile
                                 ELSE [resumeFile EXCEPT !.checksum = o.r.copyChecksum, !.size = o.r.copySize]
           ELSE /\ resumeOut' = [resumeOut EXCEPT !.status = "nojob"]
                /\ UNCHANGED <<resumeDir, resumeFile>>
    /\ UNCHANGED resumeIn

ResumeNext ==
    /\ resumeOut.status \in {"job", "nojob"}
    /\ resumeIn' = [delta |-> FALSE, compressType |-> "none", pgFile |-> NoFile, pgTime |-> 0, otherTime |-> 0,
            file |-> NoManifestFile, fileResume |-> NoManifestFile, entry |-> NoEntry]
    /\ resumeDir' = NoEntry
    /\ resumeFile' = NoManifestFile
    /\ resumeOut' = [status |-> "none", delta |-> FALSE, warnDelta |-> FALSE, reason |-> "", job |-> NoRes,
            warnReCopy |-> FALSE]

NextResume ==
    \/ BackupResumeClean /\ UNCHANGED <<fileVars, labelVars, runVars, findRepo, findCall, findOut, priorIn,
            priorOut, standby, page, parallel, manifestIo, db, helper>>
    \/ BackupResumeJob /\ UNCHANGED <<fileVars, labelVars, runVars, findRepo, findCall, findOut, priorIn, priorOut,
            standby, page, parallel, manifestIo, db, helper>>
    \/ ResumeNext /\ UNCHANGED <<fileVars, labelVars, runVars, findRepo, findCall, findOut, priorIn, priorOut,
            standby, page, parallel, manifestIo, db, helper>>

SpecResume == InitIdle /\ [][NextResume]_vars

\* ------------------------------------------- diff / incr on a prior: actions
\* The options are reset from the prior backup and the manifest is built
\* against the manifest of the prior backup.
BackupBuildIncr ==
    /\ priorOut.status = "none"
    /\ \E type \in {"diff", "incr"},
          opt \in [compressType : CompressType, hardlink : BOOLEAN, checksumPage : BOOLEAN],
          prior \in PriorOptions, delta \in BOOLEAN,
          timeline \in 1..MaxTimeline, timelinePrior \in 1..MaxTimeline,
          c \in ResumeContents, pgTime \in Timestamps, filePrior \in ManifestPriorFiles, resume \in BOOLEAN :
          LET o == backupBuildIncrPrior(opt, prior)
              deltaNow == manifestBuildIncrDelta(delta, timeline, timelinePrior)
              file == manifestBuildIncr(manifestBuildFile(File(c), pgTime, FALSE), filePrior, deltaNow)
              \* a halted backup of the same type and prior left its copy of the file
              clean == backupResumeClean(
                           IF resume THEN [kind |-> "file", compress |-> o.opt.compressType, file |-> RepoOk(c)]
                           ELSE NoEntry,
                           file,
                           IF resume THEN ManifestFile(Len(c), pgTime, Sha1(c), FALSE) ELSE NoManifestFile,
                           o.opt.compressType, deltaNow)
          IN
          /\ priorIn' = [type |-> type, opt |-> opt, prior |-> prior, delta |-> delta, timeline |-> timeline,
                         timelinePrior |-> timelinePrior, pgFile |-> File(c), pgTime |-> pgTime,
                         filePrior |-> filePrior, resume |-> resume]
          /\ priorOut' = [[status |-> "none", opt |-> [compressType |-> "none", hardlink |-> FALSE,
                  checksumPage |-> FALSE], delta |-> FALSE, warn |-> {}, file |-> NoManifestFile, job |-> NoRes,
                          entry |-> NoEntry] EXCEPT !.status = "built", !.opt = o.opt, !.delta = deltaNow,
                             !.warn = o.warn \cup (IF timeline # timelinePrior THEN {"timeline"} ELSE {}),
                             !.file = clean.file, !.entry = clean.entry]

\* The job of the file is run with the options in effect; a file that
\* stays a reference is hardlinked to the prior backup when hardlink is on.
BackupIncrJob ==
    /\ priorOut.status = "built"
    /\ LET link == IF priorOut.opt.hardlink THEN [kind |-> "hardlink", compress |-> "none", file |-> NoRepo]
                   ELSE priorOut.entry
       IN
       IF backupProcessQueue(priorOut.file, priorOut.delta)
           THEN LET o == BackupFile(backupJobParams(priorOut.file, priorOut.delta), priorIn.pgFile,
                                    IF priorOut.entry.kind = "file" THEN priorOut.entry.file ELSE NoRepo,
                                    priorOut.opt.compressType, "none")
                    copied == o.r.backupCopyResult # "noop"
                IN
                priorOut' = [priorOut EXCEPT
                                !.status = "job",
                                !.job = [status |-> o.status, r |-> o.r],
                                !.entry = IF copied
                                              THEN [kind |-> "file", compress |-> priorOut.opt.compressType,
                                                    file |-> o.repo]
                                              ELSE link,
                                !.file = IF copied
                                             THEN [priorOut.file EXCEPT !.reference = FALSE,
                                                                        !.checksum = o.r.copyChecksum,
                                                                        !.size = o.r.copySize]
                                             ELSE priorOut.file]
           ELSE priorOut' = [priorOut EXCEPT !.status = "nojob", !.entry = link]
    /\ UNCHANGED priorIn

PriorNext ==
    /\ priorOut.status \in {"job", "nojob"}
    /\ priorIn' = [type |-> "none", opt |-> [compressType |-> "none", hardlink |-> FALSE, checksumPage |-> FALSE],
            prior |-> [compressType |-> "none", hardlink |-> FALSE, checksumPageSet |-> FALSE,
                    checksumPage |-> FALSE], delta |-> FALSE, timeline |-> 1, timelinePrior |-> 1,
                            pgFile |-> NoFile, pgTime |-> 0, filePrior |-> NoManifestFile, resume |-> FALSE]
    /\ priorOut' = [status |-> "none", opt |-> [compressType |-> "none", hardlink |-> FALSE,
            checksumPage |-> FALSE], delta |-> FALSE, warn |-> {}, file |-> NoManifestFile, job |-> NoRes,
                    entry |-> NoEntry]

NextPrior ==
    \/ BackupBuildIncr /\ UNCHANGED <<fileVars, labelVars, runVars, findRepo, findCall, findOut, resumeIn,
            resumeDir, resumeFile, resumeOut, standby, page, parallel, manifestIo, db, helper>>
    \/ BackupIncrJob /\ UNCHANGED <<fileVars, labelVars, runVars, findRepo, findCall, findOut, resumeIn, resumeDir,
            resumeFile, resumeOut, standby, page, parallel, manifestIo, db, helper>>
    \/ PriorNext /\ UNCHANGED <<fileVars, labelVars, runVars, findRepo, findCall, findOut, resumeIn, resumeDir,
            resumeFile, resumeOut, standby, page, parallel, manifestIo, db, helper>>

SpecPrior == InitIdle /\ [][NextPrior]_vars

\* ----------------------------------------------- backup from a standby
\* The manifest is built on the primary; the job of the file is run against
\* the host chosen for it and its result is applied to the manifest.
BackupStandbyJob ==
    \E backupStandby \in BOOLEAN, c \in Contents, s \in {NoFile} \cup {File(x) : x \in Contents}, master \in BOOLEAN :
        LET file == [primary |-> c, standby |-> s, master |-> master]
            source == backupJobSource(backupStandby, file)
            entry == manifestBuildFile(File(c), 0, FALSE)
            o == BackupFile(backupJobParams(entry, FALSE), IF source = "standby" THEN s ELSE File(c), NoRepo,
                            "none", "none")
        IN
        /\ backupStandby \/ s = NoFile
        /\ standby' = [active |-> TRUE, backupStandby |-> backupStandby, file |-> file, source |-> source,
                       job |-> [status |-> o.status, r |-> o.r],
                       manifest |-> IF o.r.backupCopyResult = "skip" THEN NoManifestFile
                                    ELSE [entry EXCEPT !.size = o.r.copySize,
                                                       !.checksum = IF o.r.copySize = 0 THEN NULL
                                                                    ELSE o.r.copyChecksum]]
        /\ standby' # standby

NextStandby ==
    BackupStandbyJob /\ UNCHANGED <<fileVars, labelVars, runVars, findRepo, findCall, findOut, resumeIn, resumeDir,
            resumeFile, resumeOut, priorIn, priorOut, page, parallel, manifestIo, db, helper>>

SpecStandby == InitIdle /\ [][NextStandby]_vars

\* ------------------------------------------------------- page checksums
\* The worker copies a relation file; with checksum-page on, the copy goes
\* through the page checksum filter.
PageJob ==
    /\ page.status = "none"
    /\ \E checksumPage \in BOOLEAN, n \in 0..MaxPages, trailing \in BOOLEAN :
          \E pages \in [1..n -> [pdUpperZero : BOOLEAN, lsnAboveLimit : BOOLEAN, checksumOk : BOOLEAN]] :
             page' = [status |-> "job", checksumPage |-> checksumPage, pages |-> pages, trailing |-> trailing,
                      job |-> [status |-> "ok",
                               r |-> [ResultInit EXCEPT
                                         !.copySize = Len(pages) * PageSize + (IF trailing THEN 1 ELSE 0),
                                         !.repoSize = Len(pages) * PageSize + (IF trailing THEN 1 ELSE 0),
                                         !.copyChecksum = Sha1(<<pages, trailing>>),
                                         !.pageChecksumResult =
                                             IF checksumPage THEN <<pageChecksum(pages, trailing)>> ELSE NULL]],
                      manifest |-> [checksumPageSet |-> FALSE, checksumPage |-> FALSE, checksumPageError |-> <<>>,
                                    checksum |-> NULL],
                      warn |-> {}, error |-> "", committed |-> FALSE]

\* backupJobResult: the result is applied to the manifest entry of the file.
PageJobResult ==
    /\ page.status = "job"
    /\ LET r == page.job.r
           o == IF r.pageChecksumResult = NULL
                    THEN [checksumPage |-> FALSE, checksumPageError |-> <<>>, warn |-> {}, error |-> ""]
                    ELSE backupJobResultPage(r.pageChecksumResult[1])
       IN page' = [page EXCEPT
                      !.status = IF o.error = "" THEN "result" ELSE "done",
                      !.manifest = IF o.error # "" THEN page.manifest
                                   ELSE [checksumPageSet |-> r.pageChecksumResult # NULL,
                                         checksumPage |-> o.checksumPage,
                                         checksumPageError |-> o.checksumPageError,
                                         checksum |-> r.copyChecksum],
                      !.warn = o.warn,
                      !.error = o.error]

\* The backup goes on to its end and is listed in backup.info.
PageBackupComplete ==
    /\ page.status = "result"
    /\ page' = [page EXCEPT !.status = "done", !.committed = TRUE]

NextPage ==
    \/ PageJob /\ UNCHANGED <<fileVars, labelVars, runVars, findRepo, findCall, findOut, resumeIn, resumeDir,
            resumeFile, resumeOut, priorIn, priorOut, standby, parallel, manifestIo, db, helper>>
    \/ PageJobResult /\ UNCHANGED <<fileVars, labelVars, runVars, findRepo, findCall, findOut, resumeIn, resumeDir,
            resumeFile, resumeOut, priorIn, priorOut, standby, parallel, manifestIo, db, helper>>
    \/ PageBackupComplete /\ UNCHANGED <<fileVars, labelVars, runVars, findRepo, findCall, findOut, resumeIn,
            resumeDir, resumeFile, resumeOut, priorIn, priorOut, standby, parallel, manifestIo, db, helper>>

SpecPage == InitIdle /\ [][NextPage]_vars

\* ------------------------------------------------ parallel job dispatcher
\* Variant: a job is pushed to a worker that still has one.
ParallelDispatchAny ==
    /\ parallel.error = ""
    /\ \E w \in 1..ProcessMax, job \in parallel.queue :
          /\ ~parallel.worker[w].closeSent
          /\ Len(parallel.worker[w].jobs) < MaxJobs
          /\ parallel' = [parallel EXCEPT !.queue = @ \ {job}, !.worker[w].jobs = Append(@, job)]

\* The dispatcher pushes the next job of the queue to an idle worker.
ParallelDispatch ==
    /\ parallel.error = ""
    /\ \E w \in 1..ProcessMax, job \in parallel.queue :
          /\ ~parallel.worker[w].closeSent
          /\ parallel.worker[w].jobs = <<>>
          /\ parallel' = [parallel EXCEPT !.queue = @ \ {job}, !.worker[w].jobs = Append(@, job)]

\* A worker answers the job it was sent: the result of backupFile for that
\* file, or an error.  It may do so before it reads a close request.  A file
\* matches the prior backup (NoOp) only when the manifest has a reference for
\* it; a file of no bytes left is one the database removed (Skip).
WorkerFinish ==
    \E w \in 1..ProcessMax, response \in {"ok", "error"} :
        /\ parallel.worker[w].jobs # <<>>
        /\ parallel.worker[w].response = "none"
        /\ LET job == Head(parallel.worker[w].jobs) IN
           IF response = "error"
               THEN \E error \in {"AssertError: error message", "FileReadError: unable to read"} :
                       parallel' = [parallel EXCEPT !.worker[w].response = "error", !.worker[w].error = error]
               ELSE \E copyResult \in {"copy", "recopy", "checksum", "skip"}
                                         \cup (IF parallel.manifest[job].reference THEN {"noop"} ELSE {}) :
                       LET result ==
                               [ResultInit EXCEPT
                                   !.backupCopyResult = copyResult,
                                   !.copySize = IF copyResult = "skip" THEN 0 ELSE job,
                                   !.repoSize = IF copyResult \in {"skip", "noop"} THEN 0 ELSE job,
                                   !.copyChecksum = IF copyResult = "skip" THEN NULL ELSE Sha1(<<job>>)]
                       IN  parallel' = [parallel EXCEPT !.worker[w].response = "ok", !.worker[w].result = result,
                                                        !.result[job] = result]

\* Variant: a file that matches the prior backup is stored in the manifest
\* like a file whose repo copy was verified.
backupJobResultNoOpUpdate(manifest, fileRemove, job, sizeCopied) ==
    IF job.error # ""
        THEN [error |-> job.error, manifest |-> manifest, fileRemove |-> fileRemove, sizeCopied |-> sizeCopied,
              log |-> ""]
    ELSE IF job.result.backupCopyResult = "skip"
        THEN [error |-> "", manifest |-> manifest, fileRemove |-> fileRemove \cup {job.key},
              sizeCopied |-> sizeCopied + job.result.copySize, log |-> "skip file removed by database"]
    ELSE [error |-> "",
          manifest |-> [manifest EXCEPT ![job.key] =
                           [size |-> job.result.copySize, repoSize |-> job.result.repoSize,
                            checksum |-> job.result.copyChecksum, reference |-> FALSE]],
          fileRemove |-> fileRemove,
          sizeCopied |-> sizeCopied + job.result.copySize,
          log |-> IF job.result.backupCopyResult = "checksum" THEN "checksum resumed file" ELSE "backup file"]

\* backupJobResult(): the error of a job is thrown before anything is touched.
\* Otherwise the size copied grows by the size the result reports, whatever
\* the result; a NoOp is only logged, a Skip puts the file on the list of
\* files to remove from the manifest, and every other result updates the
\* entry of the file named by the key of the job, which then has no
\* reference to a prior backup.
backupJobResult(manifest, fileRemove, job, sizeCopied) ==
    IF job.error # ""
        THEN [error |-> job.error, manifest |-> manifest, fileRemove |-> fileRemove, sizeCopied |-> sizeCopied,
              log |-> ""]
    ELSE IF job.result.backupCopyResult = "noop"
        THEN [error |-> "", manifest |-> manifest, fileRemove |-> fileRemove,
              sizeCopied |-> sizeCopied + job.result.copySize, log |-> "match file from prior backup"]
    ELSE IF job.result.backupCopyResult = "skip"
        THEN [error |-> "", manifest |-> manifest, fileRemove |-> fileRemove \cup {job.key},
              sizeCopied |-> sizeCopied + job.result.copySize, log |-> "skip file removed by database"]
    ELSE [error |-> "",
          manifest |-> [manifest EXCEPT ![job.key] =
                           [size |-> job.result.copySize, repoSize |-> job.result.repoSize,
                            checksum |-> job.result.copyChecksum, reference |-> FALSE]],
          fileRemove |-> fileRemove,
          sizeCopied |-> sizeCopied + job.result.copySize,
          log |-> IF job.result.backupCopyResult = "checksum" THEN "checksum resumed file" ELSE "backup file"]

\* Variant: on an error only the worker that failed is sent a close request.
ParallelResultCloseOne ==
    /\ parallel.error = ""
    /\ \E w \in 1..ProcessMax :
          /\ parallel.worker[w].response # "none"
          /\ LET key == Head(parallel.worker[w].jobs)
                 out == backupJobResult(parallel.manifest, parallel.fileRemove,
                                        [key |-> key, error |-> parallel.worker[w].error,
                                         result |-> parallel.worker[w].result], parallel.sizeCopied)
                 idle == [jobs |-> Tail(parallel.worker[w].jobs), response |-> "none", result |-> ResultInit,
                          error |-> "", closeSent |-> out.error # ""]
             IN  IF out.error = ""
                     THEN parallel' = [parallel EXCEPT
                                          !.manifest = out.manifest, !.fileRemove = out.fileRemove,
                                          !.sizeCopied = out.sizeCopied, !.log = Append(@, <<key, out.log>>),
                                          !.applied = @ \cup {key}, !.worker[w] = idle]
                     ELSE parallel' = [parallel EXCEPT !.error = out.error, !.worker[w] = idle]

\* Variant: the result is stored in the manifest entry at the position of its
\* arrival, not in the entry its key names.
ParallelResultArrival ==
    /\ parallel.error = ""
    /\ \E w \in 1..ProcessMax :
          /\ parallel.worker[w].response # "none"
          /\ LET key == Head(parallel.worker[w].jobs)
                 out == backupJobResult(parallel.manifest, parallel.fileRemove,
                                        [key |-> Len(parallel.log) + 1, error |-> parallel.worker[w].error,
                                         result |-> parallel.worker[w].result], parallel.sizeCopied)
                 idle == [jobs |-> Tail(parallel.worker[w].jobs), response |-> "none", result |-> ResultInit,
                          error |-> "", closeSent |-> out.error # ""]
             IN  IF out.error = ""
                     THEN parallel' = [parallel EXCEPT
                                          !.manifest = out.manifest, !.fileRemove = out.fileRemove,
                                          !.sizeCopied = out.sizeCopied, !.log = Append(@, <<key, out.log>>),
                                          !.applied = @ \cup {key}, !.worker[w] = idle]
                     ELSE parallel' = [parallel EXCEPT
                                          !.error = out.error,
                                          !.worker = [v \in 1..ProcessMax |->
                                                         IF v = w THEN idle
                                                         ELSE [parallel.worker[v] EXCEPT !.closeSent = TRUE]]]

\* The dispatcher reads the answer of a worker and hands it, with the key of
\* the job, to backupJobResult(): a result is applied to the manifest in the
\* order of arrival and the worker is idle again; an error is fatal, and a
\* close request is sent to every worker.
ParallelResult ==
    /\ parallel.error = ""
    /\ \E w \in 1..ProcessMax :
          /\ parallel.worker[w].response # "none"
          /\ LET key == Head(parallel.worker[w].jobs)
                 out == backupJobResult(parallel.manifest, parallel.fileRemove,
                                        [key |-> key, error |-> parallel.worker[w].error,
                                         result |-> parallel.worker[w].result], parallel.sizeCopied)
                 idle == [jobs |-> Tail(parallel.worker[w].jobs), response |-> "none", result |-> ResultInit,
                          error |-> "", closeSent |-> out.error # ""]
             IN  IF out.error = ""
                     THEN parallel' = [parallel EXCEPT
                                          !.manifest = out.manifest, !.fileRemove = out.fileRemove,
                                          !.sizeCopied = out.sizeCopied, !.log = Append(@, <<key, out.log>>),
                                          !.applied = @ \cup {key}, !.worker[w] = idle]
                     ELSE parallel' = [parallel EXCEPT
                                          !.error = out.error,
                                          !.worker = [v \in 1..ProcessMax |->
                                                         IF v = w THEN idle
                                                         ELSE [parallel.worker[v] EXCEPT !.closeSent = TRUE]]]

\* After the error the pipe of a worker that was sent a close request is
\* drained: what it answered, or would have answered, is discarded.
ParallelDrain ==
    /\ parallel.error # ""
    /\ \E w \in 1..ProcessMax :
          /\ parallel.worker[w].closeSent
          /\ parallel.worker[w].jobs # <<>>
          /\ parallel' = [parallel EXCEPT !.worker[w].jobs = <<>>, !.worker[w].response = "none",
                                          !.worker[w].result = ResultInit, !.worker[w].error = ""]

NextParallel ==
    \/ ParallelDispatch /\ UNCHANGED <<fileVars, labelVars, runVars, findRepo, findCall, findOut, resumeIn,
            resumeDir, resumeFile, resumeOut, priorIn, priorOut, standby, page, manifestIo, db, helper>>
    \/ WorkerFinish /\ UNCHANGED <<fileVars, labelVars, runVars, findRepo, findCall, findOut, resumeIn, resumeDir,
            resumeFile, resumeOut, priorIn, priorOut, standby, page, manifestIo, db, helper>>
    \/ ParallelResult /\ UNCHANGED <<fileVars, labelVars, runVars, findRepo, findCall, findOut, resumeIn,
            resumeDir, resumeFile, resumeOut, priorIn, priorOut, standby, page, manifestIo, db, helper>>
    \/ ParallelDrain /\ UNCHANGED <<fileVars, labelVars, runVars, findRepo, findCall, findOut, resumeIn, resumeDir,
            resumeFile, resumeOut, priorIn, priorOut, standby, page, manifestIo, db, helper>>

SpecParallel == InitIdle /\ [][NextParallel]_vars

\* ================================================= manifest load and save
MaxManifestFile == 3            \* most files of a manifest
ManifestFileBase == 9           \* number in the name of the first file generated (scaled)

\* The name of the file generated for a number: the number in decimal.
ManifestFileName(n) == IF n < 10 THEN <<n>> ELSE <<n \div 10, n % 10>>

\* Collation of two names: byte by byte, a prefix first.
StrLess(a, b) ==
    \E i \in 1..(Len(a) + 1) :
        /\ \A k \in 1..(i - 1) : k <= Len(b) /\ a[k] = b[k]
        /\ IF i > Len(a) THEN Len(b) >= i ELSE i <= Len(b) /\ a[i] < b[i]

\* Variant: the files are kept in the order of the text.
manifestNewLoadNoSort(text) ==
    LET file == (CHOOSE section \in {text[i] : i \in 1..Len(text)} : section.name = "target:file").kv
        default == (CHOOSE section \in {text[i] : i \in 1..Len(text)} : section.name = "target:file:default").kv
    IN  [i \in 1..Len(file) |->
            [name |-> file[i][1], size |-> file[i][2].size, checksum |-> file[i][2].checksum,
             master |-> IF file[i][2].masterSet THEN file[i][2].master ELSE default[1][2]]]

\* manifestNewLoad(): the files of section [target:file] in the order of the
\* text, each with the value of [target:file:default] for what it does not
\* set itself; the list is then sorted by name.
manifestNewLoad(text) ==
    LET file == (CHOOSE section \in {text[i] : i \in 1..Len(text)} : section.name = "target:file").kv
        default == (CHOOSE section \in {text[i] : i \in 1..Len(text)} : section.name = "target:file:default").kv
    IN  SortSeq([i \in 1..Len(file) |->
                    [name |-> file[i][1], size |-> file[i][2].size, checksum |-> file[i][2].checksum,
                     master |-> IF file[i][2].masterSet THEN file[i][2].master ELSE default[1][2]]],
                LAMBDA x, y : StrLess(x.name, y.name))

\* manifestSave(): the file list in its order, one key per file; a file
\* writes its master flag only when it differs from the default, which is
\* the value most files have.
manifestSave(manifest) ==
    LET default == 2 * Cardinality({i \in 1..Len(manifest) : manifest[i].master}) > Len(manifest)
    IN  <<[name |-> "target:file",
           kv |-> [i \in 1..Len(manifest) |->
                      <<manifest[i].name,
                        [size |-> manifest[i].size, checksum |-> manifest[i].checksum,
                         masterSet |-> manifest[i].master # default,
                         master |-> manifest[i].master /\ manifest[i].master # default]>>]],
          [name |-> "target:file:default", kv |-> <<<<"master", default>>>>]>>

\* manifestFileFind(): binary search in the file list; 0 when the name is
\* not found.
manifestFileFind(manifest, name) ==
    LET find[lo \in 1..(Len(manifest) + 1), hi \in 0..Len(manifest)] ==
            IF lo > hi THEN 0
            ELSE LET mid == (lo + hi) \div 2
                 IN  IF manifest[mid].name = name THEN mid
                     ELSE IF StrLess(manifest[mid].name, name) THEN find[mid + 1, hi]
                     ELSE find[lo, mid - 1]
    IN  find[1, Len(manifest)]

\* A manifest text is loaded: first one that was generated, with its files
\* in any order, then the text that was saved.
ManifestLoad ==
    /\ manifestIo.status \in {"none", "found"}
    /\ IF manifestIo.status = "none"
           THEN \E n \in 0..MaxManifestFile, default \in BOOLEAN :
                   \E order \in {o \in [1..n -> 1..n] : \A i, k \in 1..n : o[i] = o[k] => i = k},
                      attr \in [1..n -> {a \in [size : {0, 1}, masterSet : BOOLEAN, master : BOOLEAN] :
                                            a.master => a.masterSet}] :
                       LET text ==
                               <<[name |-> "target:file",
                                  kv |-> [i \in 1..n |->
                                             <<ManifestFileName(ManifestFileBase + order[i] - 1),
                                               [size |-> attr[i].size,
                                                checksum |-> IF attr[i].size > 0 THEN Sha1(<<attr[i].size>>)
                                                                                ELSE NULL,
                                                masterSet |-> attr[i].masterSet, master |-> attr[i].master]>>]],
                                 [name |-> "target:file:default", kv |-> <<<<"master", default>>>>]>>
                       IN  manifestIo' = [manifestIo EXCEPT !.status = "loaded", !.textLoad = text,
                                                            !.manifest = manifestNewLoad(text)]
           ELSE manifestIo' = [manifestIo EXCEPT !.status = "reloaded", !.prior = manifestIo.manifest,
                                                 !.manifest = manifestNewLoad(manifestIo.text)]

ManifestSave ==
    /\ manifestIo.status = "loaded"
    /\ manifestIo' = [manifestIo EXCEPT !.status = "saved", !.text = manifestSave(manifestIo.manifest)]

\* Every file of the list is searched by its name.
ManifestFind ==
    /\ manifestIo.status = "saved"
    /\ manifestIo' = [manifestIo EXCEPT
                         !.status = "found",
                         !.find = [i \in 1..Len(manifestIo.manifest) |->
                                      manifestFileFind(manifestIo.manifest, manifestIo.manifest[i].name)]]

NextManifest ==
    \/ ManifestLoad /\ UNCHANGED <<fileVars, labelVars, runVars, findRepo, findCall, findOut, resumeIn,
            resumeDir, resumeFile, resumeOut, priorIn, priorOut, standby, page, parallel, db, helper>>
    \/ ManifestSave /\ UNCHANGED <<fileVars, labelVars, runVars, findRepo, findCall, findOut, resumeIn,
            resumeDir, resumeFile, resumeOut, priorIn, priorOut, standby, page, parallel, db, helper>>
    \/ ManifestFind /\ UNCHANGED <<fileVars, labelVars, runVars, findRepo, findCall, findOut, resumeIn,
            resumeDir, resumeFile, resumeOut, priorIn, priorOut, standby, page, parallel, db, helper>>

SpecManifest == InitIdle /\ [][NextManifest]_vars

\* ================================================ database calls of a backup
MaxDbFile == 3                  \* files copied between backup start and backup stop

\* backupInit() and the start time: a connection to the primary, one to the
\* standby when the backup is made from it, and the time of the server.
DbBackupInit ==
    /\ db.status = "none"
    /\ \E version \in {"9.5", "9.6", "11"}, backupStandby, startFast \in BOOLEAN :
          /\ backupStandby => version # "9.5"
          /\ db' = [db EXCEPT
                       !.status = "init", !.version = version, !.backupStandby = backupStandby,
                       !.startFast = startFast,
                       !.calls = <<<<1, "open">>>> \o (IF backupStandby THEN <<<<2, "open">>>> ELSE <<>>)
                                     \o <<<<1, "time">>>>]

\* Variant: the check for a backup in progress is made for every version.
DbBackupStartCheckAlways ==
    /\ db.status = "init"
    /\ db' = [db EXCEPT
                 !.status = "started",
                 !.calls = @ \o <<<<1, "advisoryLock">>, <<1, "isInBackup">>, <<1, "startBackup", db.startFast>>,
                                  <<1, "databaseList">>, <<1, "tablespaceList">>>>
                             \o (IF db.backupStandby THEN <<<<2, "replayWait">>>> ELSE <<>>)]

\* backupStart() and the queries of the manifest build: the advisory lock,
\* for the exclusive form (before 9.6) the check that no backup is in
\* progress, pg_start_backup(), the databases, the tablespaces, and on a
\* standby the wait for the replay of the start LSN.
DbBackupStart ==
    /\ db.status = "init"
    /\ db' = [db EXCEPT
                 !.status = "started",
                 !.calls = @ \o <<<<1, "advisoryLock">>>>
                             \o (IF db.version = "9.5" THEN <<<<1, "isInBackup">>>> ELSE <<>>)
                             \o <<<<1, "startBackup", db.startFast>>, <<1, "databaseList">>,
                                  <<1, "tablespaceList">>>>
                             \o (IF db.backupStandby THEN <<<<2, "replayWait">>>> ELSE <<>>)]

\* The copy start time: the time of the server is asked until the next
\* second has begun, twice in the scripts.
DbCopyStart ==
    /\ db.status = "started"
    /\ db' = [db EXCEPT !.status = "copy", !.calls = @ \o <<<<1, "time">>, <<1, "time">>>>]

\* A file is copied, or the copy fails and the backup ends with the error
\* without a call to stop it.
DbFileCopy ==
    /\ db.status = "copy"
    /\ db.copied < MaxDbFile
    /\ \E ok \in BOOLEAN :
          db' = IF ok THEN [db EXCEPT !.copied = @ + 1]
                ELSE [db EXCEPT !.status = "error", !.error = "FileMissingError"]

\* backupStop() and the stop time.
DbBackupStop ==
    /\ db.status = "copy"
    /\ db' = [db EXCEPT !.status = "stopped", !.calls = @ \o <<<<1, "stopBackup">>, <<1, "time">>>>]

NextDb ==
    \/ DbBackupInit /\ UNCHANGED <<fileVars, labelVars, runVars, findRepo, findCall, findOut, resumeIn,
            resumeDir, resumeFile, resumeOut, priorIn, priorOut, standby, page, parallel, manifestIo, helper>>
    \/ DbBackupStart /\ UNCHANGED <<fileVars, labelVars, runVars, findRepo, findCall, findOut, resumeIn,
            resumeDir, resumeFile, resumeOut, priorIn, priorOut, standby, page, parallel, manifestIo, helper>>
    \/ DbCopyStart /\ UNCHANGED <<fileVars, labelVars, runVars, findRepo, findCall, findOut, resumeIn,
            resumeDir, resumeFile, resumeOut, priorIn, priorOut, standby, page, parallel, manifestIo, helper>>
    \/ DbFileCopy /\ UNCHANGED <<fileVars, labelVars, runVars, findRepo, findCall, findOut, resumeIn,
            resumeDir, resumeFile, resumeOut, priorIn, priorOut, standby, page, parallel, manifestIo, helper>>
    \/ DbBackupStop /\ UNCHANGED <<fileVars, labelVars, runVars, findRepo, findCall, findOut, resumeIn,
            resumeDir, resumeFile, resumeOut, priorIn, priorOut, standby, page, parallel, manifestIo, helper>>

SpecDb == InitIdle /\ [][NextDb]_vars

\* ====================================================== protocol helper
\* A slot of a cache holds the exec of a process and the client that talks to
\* it, 0 for NULL; process p is talked to by client p.  The caches are
\* indexed from 0 as in the source.
\* The process a get would start next, 0 when the run has started MaxProc.
HelperProcNext ==
    IF \E p \in 1..MaxProc : helper.proc[p].state = "none"
        THEN CHOOSE p \in 1..MaxProc :
                 helper.proc[p].state = "none" /\ \A q \in 1..(p - 1) : helper.proc[q].state # "none"
        ELSE 0

\* The same with no test of the cached client: every get starts a process.
protocolHelperClientGetNoCache(slot, p, outcome) ==
    [exec |-> p, client |-> IF outcome \in {"ok", "configProtocolOption"} THEN p ELSE 0]

\* The slot after the body shared by protocolLocalGet and protocolRemoteGet:
\* a slot with a client is left alone; otherwise exec is assigned first, then
\* execOpen() may throw, then protocolClientNew() may throw, and only then is
\* client assigned; the option query of a repo remote throws after both.
protocolHelperClientGet(slot, p, outcome) ==
    IF slot.client # 0
        THEN slot
        ELSE [exec |-> p, client |-> IF outcome \in {"ok", "configProtocolOption"} THEN p ELSE 0]

\* protocolLocalGet(protocolStorageType, hostId, protocolId): the assertions
\* admit hostId > 0 and protocolId <= clientLocalSize; the slot is
\* clientLocal[protocolId - 1] in unsigned arithmetic.  An index outside the
\* array is undefined: the this crashes, or reads a client that is not NULL
\* and returns it, or reads NULL and starts a process it stores outside.
protocolLocalGet ==
    \E storageType \in {"repo", "pg"}, hostId \in {1}, protocolId \in 0..(HelperProcessMax + 1),
       outcome \in {"ok", "execOpen", "protocolClientNew"} :
        LET size == HelperProcessMax + 1
            idx == (protocolId + UIntModulus - 1) % UIntModulus
            base == [helper EXCEPT !.memContext = TRUE, !.clientLocalSize = size]
            this == [fn |-> "protocolLocalGet", storageType |-> storageType, hostId |-> hostId,
                     protocolId |-> protocolId, idx |-> idx, inBounds |-> idx < size, client |-> 0,
                     started |-> 0, error |-> ""]
            p == HelperProcNext
            proc == IF outcome = "execOpen"
                        THEN [state |-> "failed", cache |-> "none", idx |-> 0, storageType |-> "none"]
                        ELSE [state |-> "running", cache |-> "local", idx |-> idx, storageType |-> storageType]
        IN  IF idx >= size
                THEN \E undefined \in {"crash", "garbage", "null"} :
                     CASE undefined = "crash" ->
                              helper' = [base EXCEPT !.last = [this EXCEPT !.error = "SIGSEGV"]]
                       [] undefined = "garbage" ->
                              helper' = [base EXCEPT !.last = [this EXCEPT !.client = -1]]
                       [] undefined = "null" ->
                              /\ p # 0
                              /\ helper' = [base EXCEPT !.proc[p] = IF outcome = "execOpen"
                                                                        THEN proc
                                                                        ELSE [proc EXCEPT !.cache = "outside",
                                                                                          !.idx = 0],
                                                        !.last = [this EXCEPT
                                                                     !.started = p,
                                                                     !.client = IF outcome = "ok" THEN p ELSE 0,
                                                                     !.error = IF outcome = "ok" THEN "" ELSE outcome]]
                ELSE LET slot == helper.clientLocal[idx]
                         new == protocolHelperClientGet(slot, p, outcome)
                     IN  IF new = slot
                             THEN /\ p # 0 \/ slot.client # 0
                                  /\ helper' = [base EXCEPT !.last = [this EXCEPT !.client = slot.client]]
                             ELSE /\ p # 0
                                  /\ helper' = [base EXCEPT !.clientLocal[idx] = new, !.proc[p] = proc,
                                                            !.last = [this EXCEPT
                                                                         !.started = p,
                                                                         !.client = IF outcome = "ok" THEN p ELSE 0,
                                                                         !.error = IF outcome = "ok" THEN "" ELSE outcome]]

\* protocolRemoteGet(protocolStorageType, hostId): the slot is
\* clientRemote[hostId - 1], whatever the storage type; CHECK throws for a
\* host beyond the cache.  A repo remote with no cipher configured asks the
\* remote for its cipher options once the client exists.
protocolRemoteGet ==
    \E storageType \in {"repo", "pg"}, hostId \in 1..(PgPathTotal + 2),
       outcome \in {"ok", "execOpen", "protocolClientNew", "configProtocolOption"} :
        LET size == PgPathTotal + 1
            idx == (hostId + UIntModulus - 1) % UIntModulus
            base == [helper EXCEPT !.memContext = TRUE, !.clientRemoteSize = size]
            this == [fn |-> "protocolRemoteGet", storageType |-> storageType, hostId |-> hostId,
                     protocolId |-> 0, idx |-> idx, inBounds |-> TRUE, client |-> 0, started |-> 0,
                     error |-> ""]
            p == HelperProcNext
            proc == IF outcome = "execOpen"
                        THEN [state |-> "failed", cache |-> "none", idx |-> 0, storageType |-> "none"]
                        ELSE [state |-> "running", cache |-> "remote", idx |-> idx, storageType |-> storageType]
        IN  /\ outcome = "configProtocolOption" => storageType = "repo"
            /\ IF ~(idx < size)
                   THEN helper' = [base EXCEPT !.last = [this EXCEPT !.error = "AssertError"]]
                   ELSE LET slot == helper.clientRemote[idx]
                            new == protocolHelperClientGet(slot, p, outcome)
                        IN  IF new = slot
                                THEN /\ p # 0 \/ slot.client # 0
                                     /\ helper' = [base EXCEPT !.last = [this EXCEPT !.client = slot.client]]
                                ELSE /\ p # 0
                                     /\ helper' = [base EXCEPT !.clientRemote[idx] = new, !.proc[p] = proc,
                                                               !.last = [this EXCEPT
                                                                            !.started = p,
                                                                            !.client = IF outcome = "ok" THEN p ELSE 0,
                                                                            !.error = IF outcome = "ok" THEN "" ELSE outcome]]

\* The helper after the body of protocolRemoteFree() for a slot inside the cache:
\* only a slot with a client is freed.
HelperRemoteFreed(h, idx) ==
    IF h.clientRemote[idx].client # 0
        THEN [h EXCEPT !.clientRemote[idx] = [exec |-> 0, client |-> 0],
                       !.proc[h.clientRemote[idx].exec] =
                           [state |-> "freed", cache |-> "none", idx |-> 0, storageType |-> "none"]]
        ELSE h

\* protocolRemoteFree(hostId): nothing before the cache is allocated; the slot
\* is clientRemote[hostId - 1] with no test against clientRemoteSize.  An index
\* outside the array is undefined: the this crashes or reads NULL and returns.
protocolRemoteFree ==
    \E hostId \in 1..(PgPathTotal + 2) :
        LET idx == (hostId + UIntModulus - 1) % UIntModulus
            this == [fn |-> "protocolRemoteFree", storageType |-> "none", hostId |-> hostId, protocolId |-> 0,
                     idx |-> idx, inBounds |-> helper.clientRemoteSize = 0 \/ idx < helper.clientRemoteSize,
                     client |-> 0, started |-> 0, error |-> ""]
        IN  IF helper.clientRemoteSize = 0
                THEN helper' = [helper EXCEPT !.last = this]
                ELSE IF idx < helper.clientRemoteSize
                         THEN helper' = [HelperRemoteFreed(helper, idx) EXCEPT !.last = this]
                         ELSE \E undefined \in {"SIGSEGV", ""} :
                                  helper' = [helper EXCEPT !.last = [this EXCEPT !.error = undefined]]

\* The same without the loop over the local cache.
protocolFreeRemoteOnly ==
    LET this == [fn |-> "protocolFree", storageType |-> "none", hostId |-> 0, protocolId |-> 0, idx |-> 0,
                 inBounds |-> TRUE, client |-> 0, started |-> 0, error |-> ""]
        freeRemote[n \in 0..(PgPathTotal + 1)] ==
            IF n = 0 THEN helper ELSE HelperRemoteFreed(freeRemote[n - 1], n - 1)
    IN  helper' = [(IF helper.memContext THEN freeRemote[helper.clientRemoteSize] ELSE helper) EXCEPT !.last = this]

\* protocolFree(): nothing before the helper is initialised; then
\* protocolRemoteFree(clientIdx + 1) for every remote slot and the same for
\* every local slot that has a client.
protocolFree ==
    LET this == [fn |-> "protocolFree", storageType |-> "none", hostId |-> 0, protocolId |-> 0, idx |-> 0,
                 inBounds |-> TRUE, client |-> 0, started |-> 0, error |-> ""]
        freeRemote[n \in 0..(PgPathTotal + 1)] ==
            IF n = 0 THEN helper ELSE HelperRemoteFreed(freeRemote[n - 1], n - 1)
        freeLocal[n \in 0..(HelperProcessMax + 1)] ==
            IF n = 0
                THEN freeRemote[helper.clientRemoteSize]
                ELSE IF freeLocal[n - 1].clientLocal[n - 1].client # 0
                         THEN [freeLocal[n - 1] EXCEPT
                                  !.clientLocal[n - 1] = [exec |-> 0, client |-> 0],
                                  !.proc[freeLocal[n - 1].clientLocal[n - 1].exec] =
                                      [state |-> "freed", cache |-> "none", idx |-> 0, storageType |-> "none"]]
                         ELSE freeLocal[n - 1]
    IN  helper' = [(IF helper.memContext THEN freeLocal[helper.clientLocalSize] ELSE helper) EXCEPT !.last = this]

NextHelper ==
    \/ protocolLocalGet /\ UNCHANGED <<fileVars, labelVars, runVars, findRepo, findCall, findOut, resumeIn,
            resumeDir, resumeFile, resumeOut, priorIn, priorOut, standby, page, parallel, manifestIo, db>>
    \/ protocolRemoteGet /\ UNCHANGED <<fileVars, labelVars, runVars, findRepo, findCall, findOut, resumeIn,
            resumeDir, resumeFile, resumeOut, priorIn, priorOut, standby, page, parallel, manifestIo, db>>
    \/ protocolRemoteFree /\ UNCHANGED <<fileVars, labelVars, runVars, findRepo, findCall, findOut, resumeIn,
            resumeDir, resumeFile, resumeOut, priorIn, priorOut, standby, page, parallel, manifestIo, db>>
    \/ protocolFree /\ UNCHANGED <<fileVars, labelVars, runVars, findRepo, findCall, findOut, resumeIn,
            resumeDir, resumeFile, resumeOut, priorIn, priorOut, standby, page, parallel, manifestIo, db>>

SpecHelper == InitIdle /\ [][NextHelper]_vars

\* ================================================== properties of the worker

\* What a call found and what it returned.
FileCase ==
     \* The source, as the manifest describes it: its first pgFileSize bytes hash
     \* to the checksum passed and its size is pgFileSize (a longer file counts
     \* when the exact size was asked for).
    [liveMatch |->
         /\ pg.exists
         /\ call.p.pgFileChecksum # NULL
         /\ Len(pg.data) >= call.p.pgFileSize
         /\ Len(pg.data) = call.p.pgFileSize \/ call.p.pgFileCopyExactSize
         /\ <<"sha1", SubSeq(pg.data, 1, call.p.pgFileSize)>> = call.p.pgFileChecksum,
     \* The repo copy found by the call has the checksum and the size passed.
     repoBeforeMatch |->
         /\ call.repoBefore.state = "ok"
         /\ call.p.pgFileChecksum # NULL
         /\ Len(call.repoBefore.data) = call.p.pgFileSize
         /\ <<"sha1", call.repoBefore.data>> = call.p.pgFileChecksum,
     noOp |->
         /\ res.status = "ok"
         /\ res.r.backupCopyResult = "noop"
         /\ res.r.repoSize = 0
         /\ res.r.copySize = call.p.pgFileSize
         /\ res.r.copyChecksum = call.p.pgFileChecksum
         /\ repo = call.repoBefore,
     skip |->
         /\ res.status = "ok"
         /\ res.r.backupCopyResult = "skip"
         /\ res.r.copySize = 0
         /\ res.r.repoSize = 0
         /\ res.r.copyChecksum = NULL]




C2_ChecksumOrReCopy ==
    (call.active /\ call.p.delta /\ FileCase.liveMatch /\ ~call.p.repoFileHasReference) =>
        /\ res.status = "ok"
        /\ res.r.backupCopyResult = (IF FileCase.repoBeforeMatch THEN "checksum" ELSE "recopy")
        /\ repo.state = "ok"
        /\ res.r.copyChecksum = <<"sha1", SubSeq(pg.data, 1, call.p.pgFileSize)>>
        /\ <<"sha1", repo.data>> = res.r.copyChecksum

C2_Witness ==
    /\ call.active /\ call.p.delta /\ FileCase.liveMatch /\ ~call.p.repoFileHasReference
    /\ call.repoBefore.state = "none" /\ res.r.backupCopyResult = "recopy" /\ repo.state = "ok"

\* C3: delta set, checksum passed, source differs from it in checksum or
\* size: Copy (never NoOp or Checksum), reference or not; the file is written
\* to the repo and copyChecksum is the checksum of the bytes copied.
C3_MismatchCopies ==
    (call.active /\ call.p.delta /\ call.p.pgFileChecksum # NULL /\ pg.exists /\ ~FileCase.liveMatch) =>
        /\ res.status = "ok"
        /\ res.r.backupCopyResult = "copy"
        /\ repo.state = "ok"
        /\ res.r.copyChecksum = <<"sha1", repo.data>>
        /\ res.r.copySize = Len(repo.data)
        /\ repo.data = (IF call.p.pgFileCopyExactSize /\ Len(pg.data) > call.p.pgFileSize THEN SubSeq(pg.data, 1,
                call.p.pgFileSize) ELSE pg.data)

C3_Witness ==
    /\ call.active /\ call.p.delta /\ call.p.pgFileChecksum # NULL /\ pg.exists /\ ~FileCase.liveMatch
    /\ call.p.repoFileHasReference /\ call.repoBefore.state = "ok" /\ call.repoBefore # repo
    /\ call.p.pgFileChecksum = <<"sha1", pg.data>> /\ res.r.backupCopyResult = "copy"

\* C4 (as stated): on the copy branch ReCopy is reported exactly when a repo
\* file that was already there is replaced.
C4_Original == ((call.active /\ res.status = "ok") /\ res.r.backupCopyResult \in {"copy",
        "recopy"}) => ((res.r.backupCopyResult = "recopy") = (call.repoBefore.state # "none"))

\* C4 (amended): on the copy branch ReCopy is reported exactly when the repo
\* copy was compared with the checksum and size passed and did not match
\* (absent, unreadable or different); a copy made without that comparison is
\* Copy, also when it replaces a repo file that was already there.
C4_ReCopy == ((call.active /\ res.status = "ok") /\ res.r.backupCopyResult \in {"copy",
        "recopy"}) => ((res.r.backupCopyResult = "recopy") = ((call.p.pgFileChecksum # NULL /\
                (~call.p.delta \/ (~call.p.repoFileHasReference /\ FileCase.liveMatch))) /\
                        ~FileCase.repoBeforeMatch))

C4_Witness ==
    /\ ((call.active /\ res.status = "ok") /\ res.r.backupCopyResult \in {"copy",
            "recopy"}) /\ res.r.backupCopyResult = "copy" /\ call.repoBefore.state = "ok" /\ repo # call.repoBefore
    /\ call.p.delta /\ call.p.pgFileChecksum # NULL


C7_ExactSize ==
    ((call.active /\ res.status = "ok") /\ call.p.pgFileCopyExactSize) =>
        /\ res.r.copySize <= call.p.pgFileSize
        /\ (((call.active /\ res.status = "ok") /\ res.r.backupCopyResult \in {"copy",
                "recopy"}) /\ Len(pg.data) > call.p.pgFileSize) =>
              /\ res.r.copySize = call.p.pgFileSize
              /\ res.r.copyChecksum = <<"sha1", SubSeq(pg.data, 1, call.p.pgFileSize)>>
              /\ repo.data = SubSeq(pg.data, 1, call.p.pgFileSize)

C7_Witness ==
    /\ ((call.active /\ res.status = "ok") /\ res.r.backupCopyResult \in {"copy",
            "recopy"}) /\ call.p.pgFileCopyExactSize /\ Len(pg.data) > call.p.pgFileSize /\ call.p.pgFileSize > 0
    /\ res.r.copySize = call.p.pgFileSize /\ repo.data # pg.data

\* C8 (as stated): the response is {"out":[result, copySize, repoSize,
\* checksum-or-null, pageChecksum-or-null]} with Copy=0, Checksum=1, ReCopy=2,
\* Skip=3, NoOp=4.
C8_Original ==
    (call.active /\ res.status = "ok") =>
        /\ serverWrite.out = <<serverWrite.out[1], res.r.copySize, res.r.repoSize, res.r.copyChecksum,
                res.r.pageChecksumResult>>
        /\ (res.r.backupCopyResult = "copy") = (serverWrite.out[1] = 0)
        /\ (res.r.backupCopyResult = "checksum") = (serverWrite.out[1] = 1)
        /\ (res.r.backupCopyResult = "recopy") = (serverWrite.out[1] = 2)
        /\ (res.r.backupCopyResult = "skip") = (serverWrite.out[1] = 3)
        /\ (res.r.backupCopyResult = "noop") = (serverWrite.out[1] = 4)

\* C8 (amended): the same response, with Checksum=0, Copy=1, ReCopy=2,
\* Skip=3, NoOp=4; a call that fails writes no response.
C8_Response ==
    /\ (call.active /\ res.status = "ok") =>
        /\ serverWrite.out = <<serverWrite.out[1], res.r.copySize, res.r.repoSize, res.r.copyChecksum,
                res.r.pageChecksumResult>>
        /\ (res.r.backupCopyResult = "checksum") = (serverWrite.out[1] = 0)
        /\ (res.r.backupCopyResult = "copy") = (serverWrite.out[1] = 1)
        /\ (res.r.backupCopyResult = "recopy") = (serverWrite.out[1] = 2)
        /\ (res.r.backupCopyResult = "skip") = (serverWrite.out[1] = 3)
        /\ (res.r.backupCopyResult = "noop") = (serverWrite.out[1] = 4)
    /\ ~(call.active /\ res.status = "ok") => serverWrite = NoOut

C8_Witness ==
    /\ (call.active /\ res.status = "ok") /\ res.r.backupCopyResult = "copy" /\ serverWrite.out[1] = 1 /\
            res.r.pageChecksumResult # NULL
    /\ res.r.copySize # res.r.repoSize /\ res.r.copySize > 0

\* ================================================ properties of the labels

C10_Original == (phase # "idle") => (runLabel # NoLabel /\ (runLabel \in Labels) /\ Partial(runLabel) /\
        runLabel \notin backupInfo)

\* C10 (amended): backup.info lists a label only once its final manifest and
\* manifest copy are written; before the first save of the manifest copy
\* there is no directory for the new backup; from that save until the final
\* manifest is written the directory holds the manifest copy and no final
\* manifest; then it holds both while backup.info does not list the label
\* yet; a run that fails once processing started (no files changed, archive
\* timeout) leaves the partial directory in place.
C10_Atomicity ==
    /\ \A l \in backupInfo : l \in Labels /\ backupDir[l].manifest /\ backupDir[l].manifestCopy
    /\ phase = "init" => runLabel = NoLabel
    /\ phase \in {"prepared", "copy", "archive", "finalCopy",
            "finalManifest"} => (runLabel # NoLabel /\ (runLabel \in Labels) /\ Partial(runLabel) /\
                    runLabel \notin backupInfo)
    /\ phase = "finalInfo" =>
          (runLabel \in Labels) /\ backupDir[runLabel].manifest /\ backupDir[runLabel].manifestCopy /\
                  runLabel \notin backupInfo
    /\ (phase = "idle" /\ copyStarted /\ runError \in {"FileMissingError",
            "ArchiveTimeoutError"}) => (runLabel # NoLabel /\ (runLabel \in Labels) /\ Partial(runLabel) /\
                    runLabel \notin backupInfo)

C10_Witness ==
    /\ phase = "idle" /\ copyStarted /\ runError = "ArchiveTimeoutError" /\ (runLabel # NoLabel /\
            (runLabel \in Labels) /\ Partial(runLabel) /\ runLabel \notin backupInfo)
    /\ backupDir[runLabel].files # {} /\ backupInfo # {} /\ runLabel.type = "diff"

\* ============================================ properties of the resume check

\* The call found a partial backup; no manifest to resume came back; the
\* partial backup is gone and the backup is a new one (a label made for it, a
\* directory with its manifest copy and no file of the partial backup).
FindCase ==
    [partial |-> findCall.active /\ findCall.dirBefore.state = "partial",
     rejected |-> findOut.status \in {"find", "fresh"} /\ ~findOut.found,
     fresh |->
         (findOut.status = "fresh" =>
             /\ findOut.label.type = findCall.manifest.backupType /\ LabelTimestamp(findOut.label) = (FindHalted + 1)
             /\ findRepo.state = "partial" /\ findRepo.label = findOut.label /\ ~findRepo.files
             /\ findRepo.data = findCall.manifest)]

\* C11: a partial backup is rejected -- no manifest to resume is returned and
\* its whole directory is removed -- exactly when resume is disabled, or the
\* pgBackRest version, the prior label (one side undefined included), the
\* compression type or the backup type differ; the backup then goes on as a
\* new backup; otherwise the partial backup is returned and left in place.
C11_ResumeReject ==
    FindCase.partial =>
        /\ FindCase.rejected =
              (\/ ~findCall.resume
               \/ findCall.dirBefore.data.backrestVersion # findCall.manifest.backrestVersion
               \/ findCall.dirBefore.data.backupLabelPrior # findCall.manifest.backupLabelPrior
               \/ findCall.dirBefore.data.backupOptionCompressType # findCall.manifest.backupOptionCompressType
               \/ findCall.dirBefore.data.backupType # findCall.manifest.backupType)
        /\ FindCase.rejected => findOut.reason # "" /\ FindCase.fresh
        /\ (FindCase.rejected /\ findOut.status = "find") => findRepo = NoFindDir
        /\ ~FindCase.rejected =>
              /\ findRepo = findCall.dirBefore
              /\ findOut.status = "resume" => findOut.label = findCall.dirBefore.label

C11_Witness ==
    /\ FindCase.partial /\ findOut.status = "fresh" /\ findCall.resume
    /\ findCall.dirBefore.data.backupType = "diff" /\ findCall.manifest.backupType = "incr"
    /\ findCall.dirBefore.data.backrestVersion = findCall.manifest.backrestVersion
    /\ findCall.dirBefore.data.backupLabelPrior = findCall.manifest.backupLabelPrior
    /\ findCall.dirBefore.data.backupOptionCompressType = findCall.manifest.backupOptionCompressType
    /\ findRepo.label.type = "incr"

\* ------------------------------------------------------------------ C13

\* What the clean looked at and what came of it.  candidate: the file as
\* the claim about resumed files describes it (in the directory of the
\* halted backup, in both manifests with one size, with a checksum in the
\* resumed manifest, a reference in neither); kept: what the clean asks for
\* besides; liveMatch, repoMatch: the file of the cluster, or the copy found
\* in the repo, has the checksum of the resumed manifest; future: a file of
\* the cluster has a timestamp later than the start of the copy.
ResumeCase ==
    LET compressMismatch == resumeIn.entry.compress # resumeIn.compressType
        missing == ~resumeIn.file.present \/ ~resumeIn.fileResume.present
        reference == resumeIn.file.reference \/ resumeIn.fileResume.reference
        sizeMismatch == resumeIn.file.size # resumeIn.fileResume.size
        timeMismatch == resumeIn.file.timestamp # resumeIn.fileResume.timestamp
        zeroSize == resumeIn.file.size = 0
        noChecksum == resumeIn.fileResume.checksum = NULL
        candidate ==
            resumeIn.entry.kind = "file" /\ ~missing /\ ~sizeMismatch /\ ~noChecksum /\ ~reference
    IN
    [cleaned |-> resumeOut.status = "clean",
     survives |-> resumeOut.status = "clean" /\ resumeDir.kind # "none",
     notFile |-> resumeIn.entry.kind \in {"special", "link", "path"},
     compressMismatch |-> compressMismatch,
     missing |-> missing,
     reference |-> reference,
     sizeMismatch |-> sizeMismatch,
     timeMismatch |-> timeMismatch,
     zeroSize |-> zeroSize,
     noChecksum |-> noChecksum,
     candidate |-> candidate,
     kept |-> candidate /\ ~compressMismatch /\ ~zeroSize /\ (resumeOut.delta \/ ~timeMismatch),
     jobDone |-> resumeOut.status = "job",
     jobResult |-> resumeOut.job.r.backupCopyResult,
     liveMatch |-> Sha1(resumeIn.pgFile.data) = resumeIn.fileResume.checksum,
     repoMatch |->
         /\ resumeIn.entry.file.state = "ok"
         /\ Len(resumeIn.entry.file.data) = resumeIn.file.size
         /\ Sha1(resumeIn.entry.file.data) = resumeIn.fileResume.checksum,
     newlyCopied |->
         /\ resumeOut.job.r.backupCopyResult = "copy"
         /\ resumeDir = [kind |-> "file", compress |-> resumeIn.compressType, file |-> RepoOk(resumeIn.pgFile.data)]
         /\ resumeFile.checksum = Sha1(resumeIn.pgFile.data),
     future |-> resumeIn.otherTime > CopyStart \/ (resumeIn.pgFile.exists /\ resumeIn.pgTime > CopyStart)]

\* C13 as stated: after the resume clean no entry survives that has a
\* mismatched compression suffix, is missing from the new or the resumed
\* manifest, is a reference in either, has a mismatched size or timestamp,
\* has zero size, has no checksum in the resumed manifest, or is a special
\* file, a link or a path that is not in the manifest.
C13_Original ==
    ResumeCase.survives =>
        ~(\/ ResumeCase.notFile \/ ResumeCase.compressMismatch \/ ResumeCase.missing \/ ResumeCase.reference
          \/ ResumeCase.sizeMismatch \/ ResumeCase.timeMismatch \/ ResumeCase.zeroSize \/ ResumeCase.noChecksum)

\* C13 as the clean behaves: the same, except that a mismatched timestamp
\* removes the entry only when delta is off; an entry that survives is
\* left as it was found.
C13_ResumeClean ==
    ResumeCase.survives =>
        /\ ~(\/ ResumeCase.notFile \/ ResumeCase.compressMismatch \/ ResumeCase.missing \/ ResumeCase.reference
             \/ ResumeCase.sizeMismatch \/ (~resumeOut.delta /\
                     ResumeCase.timeMismatch) \/ ResumeCase.zeroSize \/ ResumeCase.noChecksum)
        /\ resumeDir = resumeIn.entry

\* A file whose only fault is its timestamp was removed, delta being off.
C13_Witness ==
    /\ ResumeCase.cleaned
    /\ ~resumeOut.delta
    /\ resumeIn.entry.kind = "file"
    /\ ResumeCase.timeMismatch
    /\ ~(ResumeCase.compressMismatch \/ ResumeCase.missing \/ ResumeCase.reference \/ ResumeCase.sizeMismatch \/ ResumeCase.zeroSize \/ ResumeCase.noChecksum)
    /\ resumeDir = NoEntry
    /\ resumeOut.reason = "mismatched timestamp"

\* ------------------------------------------------------------------ C12

\* C12 as stated: such a file is kept, its checksum is carried into the new
\* manifest and its job result is Checksum; every other file is newly
\* copied.
C12_Original ==
    /\ (ResumeCase.cleaned /\ ResumeCase.candidate) =>
           (resumeDir = resumeIn.entry /\ resumeFile.checksum = resumeIn.fileResume.checksum)
    /\ (ResumeCase.jobDone /\ ResumeCase.candidate) => ResumeCase.jobResult = "checksum"
    /\ (resumeOut.status \in {"job", "nojob"} /\ ~ResumeCase.candidate /\ resumeIn.file.present) =>
           ResumeCase.jobResult = "copy"

\* C12 as the resume behaves: the file is kept when, besides, its
\* compression suffix matches, its size is not zero and (delta being off)
\* its timestamp matches; its job result is Checksum when the copy in the
\* repo has the carried checksum (and, with delta, the file of the cluster
\* too), ReCopy when the copy in the repo has not, Copy when delta finds
\* the file of the cluster changed; every other file that is not a
\* reference is newly copied.
C12_ResumeKeep ==
    /\ (ResumeCase.cleaned /\ ResumeCase.kept) =>
           (resumeDir = resumeIn.entry /\ resumeFile.checksum = resumeIn.fileResume.checksum)
    /\ (ResumeCase.jobDone /\ ResumeCase.kept) =>
           /\ resumeOut.job.status = "ok"
           /\ ResumeCase.jobResult =
                  (IF resumeOut.delta /\ ~ResumeCase.liveMatch THEN "copy"
                   ELSE IF ResumeCase.repoMatch THEN "checksum" ELSE "recopy")
           /\ ResumeCase.jobResult = "checksum" => resumeDir = resumeIn.entry
    /\ (resumeOut.status \in {"job",
            "nojob"} /\ ~ResumeCase.kept /\ resumeIn.file.present /\ ~resumeIn.file.reference) =>
           (ResumeCase.jobDone /\ ResumeCase.newlyCopied)

\* A kept file whose copy in the repo was found good: nothing was copied.
C12_Witness ==
    /\ ResumeCase.jobDone
    /\ ResumeCase.kept
    /\ ~resumeOut.delta
    /\ ResumeCase.jobResult = "checksum"
    /\ resumeFile.checksum = resumeIn.fileResume.checksum
    /\ resumeDir = resumeIn.entry

\* ------------------------------------------------------------------ C14

\* C14: a timestamp in the future turns delta on for the whole backup, with
\* a warning when it was off; a resumed file is then kept whatever its
\* timestamp and decided by its checksum; a copy in the repo with the wrong
\* checksum is copied again with a warning and the job succeeds.
C14_FutureDelta ==
    (resumeOut.status # "none" /\ ResumeCase.future) =>
        /\ resumeOut.delta
        /\ ~resumeIn.delta => resumeOut.warnDelta
        /\ (ResumeCase.cleaned /\ ResumeCase.candidate /\ ~ResumeCase.compressMismatch /\ ~ResumeCase.zeroSize) =>
               resumeDir = resumeIn.entry
        /\ (ResumeCase.jobDone /\ ResumeCase.kept) =>
               /\ resumeOut.job.status = "ok"
               /\ (ResumeCase.jobResult = "checksum") = (ResumeCase.liveMatch /\ ResumeCase.repoMatch)
               /\ (ResumeCase.jobResult = "recopy") = (ResumeCase.liveMatch /\ ~ResumeCase.repoMatch)
               /\ resumeOut.warnReCopy = (ResumeCase.jobResult = "recopy")
               /\ ResumeCase.jobResult = "recopy" =>
                      /\ resumeDir.file = RepoOk(resumeIn.pgFile.data)
                      /\ resumeFile.checksum = Sha1(resumeIn.pgFile.data)

\* Another file is in the future, delta was not asked for, the resumed file
\* has another timestamp than in the halted backup and a copy in the repo
\* with the wrong checksum: it was copied again.
C14_Witness ==
    /\ ResumeCase.jobDone
    /\ ~resumeIn.delta
    /\ resumeIn.otherTime > CopyStart
    /\ resumeIn.pgTime <= CopyStart
    /\ ResumeCase.timeMismatch
    /\ ResumeCase.kept
    /\ ~ResumeCase.repoMatch
    /\ ResumeCase.jobResult = "recopy"
    /\ resumeOut.warnReCopy
    /\ resumeOut.warnDelta

\* ------------------------------------------------------------------ C15

\* The file against the entry of the prior manifest, and the timelines.
PriorCase ==
    [built |-> priorOut.status # "none",
     jobDone |-> priorOut.status \in {"job", "nojob"},
     switch |-> priorIn.timeline # priorIn.timelinePrior,
     sameSize |-> priorIn.filePrior.present /\ priorIn.filePrior.size = Len(priorIn.pgFile.data),
     sameChecksum |-> priorIn.filePrior.present /\ priorIn.filePrior.checksum = Sha1(priorIn.pgFile.data),
     sameTime |-> priorIn.filePrior.present /\ priorIn.filePrior.timestamp = priorIn.pgTime]

\* C15: in a diff or incr backup whose start WAL is on another timeline
\* than the prior backup, delta is turned on with a warning (and the
\* timeline turns it on in no other case), and a file is taken from the
\* prior backup exactly when its checksum is the one recorded there,
\* whatever its timestamp; otherwise it is copied (or, in a resumed backup,
\* the copy the halted backup left is checked).
C15_TimelineDelta ==
    /\ PriorCase.built =>
           /\ priorOut.delta = (priorIn.delta \/ PriorCase.switch)
           /\ ("timeline" \in priorOut.warn) = PriorCase.switch
    /\ (PriorCase.built /\ PriorCase.switch) =>
           /\ priorOut.status = "built" => priorOut.file.reference = PriorCase.sameSize
           /\ PriorCase.jobDone =>
                  /\ priorOut.file.reference = PriorCase.sameChecksum
                  /\ priorOut.file.checksum = Sha1(priorIn.pgFile.data)
                  /\ priorOut.status = "job" =>
                         /\ priorOut.job.status = "ok"
                         /\ priorOut.job.r.backupCopyResult \in
                                (IF PriorCase.sameChecksum THEN {"noop"}
                                 ELSE IF priorIn.resume THEN {"copy", "checksum"}
                                 ELSE {"copy"})
                  /\ priorOut.status = "nojob" => (PriorCase.sameSize /\ Len(priorIn.pgFile.data) = 0)

\* After a timeline switch, delta not asked for, a file with a new
\* timestamp and the old content was matched with the prior backup.
C15_Witness ==
    /\ priorOut.status = "job"
    /\ PriorCase.switch
    /\ ~priorIn.delta
    /\ ~PriorCase.sameTime
    /\ PriorCase.sameChecksum
    /\ priorOut.job.r.backupCopyResult = "noop"
    /\ priorOut.file.reference

\* ------------------------------------------------------------------ C18
\* C18: in a diff or incr backup the compress-type, hardlink and
\* checksum-page in effect are those recorded in the prior backup
\* (checksum-page is off when the prior backup records none); each option
\* asked for with another value gets a warning; the reset is done before a
\* file is copied and the copy is made with the prior compress-type.
C18_OptionReset ==
    PriorCase.built =>
        /\ priorOut.opt.compressType = priorIn.prior.compressType
        /\ priorOut.opt.hardlink = priorIn.prior.hardlink
        /\ priorOut.opt.checksumPage = (priorIn.prior.checksumPageSet /\ priorIn.prior.checksumPage)
        /\ ("compress-type" \in priorOut.warn) = (priorIn.opt.compressType # priorIn.prior.compressType)
        /\ ("hardlink" \in priorOut.warn) = (priorIn.opt.hardlink # priorIn.prior.hardlink)
        /\ ("checksum-page" \in priorOut.warn) =
               (priorIn.prior.checksumPageSet /\ priorIn.opt.checksumPage # priorIn.prior.checksumPage)
        /\ priorOut.status = "built" => (priorOut.job = NoRes /\ (~priorIn.resume => priorOut.entry = NoEntry))
        /\ priorOut.entry.kind = "file" => priorOut.entry.compress = priorIn.prior.compressType

\* Every one of the three options was asked for with another value than
\* the prior backup has, and a file was copied.
C18_Witness ==
    /\ priorOut.status = "job"
    /\ priorIn.opt.compressType = "gz" /\ priorIn.prior.compressType = "none"
    /\ priorIn.opt.hardlink /\ ~priorIn.prior.hardlink
    /\ priorIn.prior.checksumPageSet /\ priorIn.opt.checksumPage /\ ~priorIn.prior.checksumPage
    /\ priorOut.warn = {"compress-type", "hardlink", "checksum-page"}
    /\ priorOut.job.r.backupCopyResult = "copy"
    /\ priorOut.entry.kind = "file" /\ priorOut.entry.compress = "none"
    /\ ~priorOut.opt.hardlink /\ ~priorOut.opt.checksumPage

\* ------------------------------------------------------------------ C16
\* The running process: it has a label and a directory for its backup; a
\* diff or incr was asked for and backup.info lists no full; it runs offline
\* and finds postmaster.pid; its archive check lacks a segment; it is a diff
\* or incr whose manifest has a reference for every file.
RunCase ==
    [hasDir |-> phase \notin {"idle", "init"} /\ runLabel \in Labels,
     noFull |-> phase # "idle" /\ runOpt.type \in {"diff", "incr"} /\ FullBackups = {},
     postmasterFound |-> phase # "idle" /\ ~runOpt.online /\ runOpt.pid,
     archiveMissing |-> phase = "archive" /\ ArchiveChecked(runOpt) /\ ~walArchived,
     nothingChanged |-> /\ phase = "prepared"
                        /\ runType \in {"diff", "incr"}
                        /\ runLabel \in Labels
                        /\ \A f \in Files : backupDir[runLabel].ref[f] # NoLabel]

\* C16: a diff or incr asked for when backup.info lists no full backup is
\* run as a full, with a warning (and the warning is logged in no other
\* case): its label is that of a full, it has no prior and none of its
\* files is a reference.
C16_ChangedToFull ==
    /\ RunCase.noFull =>
           /\ runType = "full"
           /\ "no prior backup exists" \in runWarn
           /\ RunCase.hasDir =>
                  /\ runLabel.type = "full"
                  /\ runLabel.full = runLabel.ts
                  /\ backupDir[runLabel].type = "full"
                  /\ backupDir[runLabel].prior = NoLabel
                  /\ \A f \in Files : backupDir[runLabel].ref[f] = NoLabel
    /\ (phase # "idle" /\ ~RunCase.noFull) => ("no prior backup exists" \notin runWarn /\ runType = runOpt.type)

\* An incr was asked for, and the backup about to be listed is a full that
\* stores every file.
C16_Witness ==
    /\ phase = "finalInfo"
    /\ runOpt.type = "incr"
    /\ FullBackups = {}
    /\ runLabel.type = "full"
    /\ backupDir[runLabel].files = Files
    /\ "no prior backup exists" \in runWarn

\* ------------------------------------------------------------------ C17
\* C17: the prior of a diff is the most recent full backup of backup.info,
\* whatever the most recent backup is: the label of the diff carries the
\* label of that full, and every reference of the diff names it.
C17_DiffPrior ==
    /\ (RunCase.hasDir /\ runType = "diff") =>
           /\ backupDir[runLabel].prior = LatestOf(FullBackups)
           /\ runLabel.type = "diff"
    /\ \A l \in {m \in Labels : backupDir[m].type = "diff"} :
           /\ backupDir[l].prior.type = "full"
           /\ backupDir[l].prior \in backupInfo
           /\ l.full = backupDir[l].prior.ts
           /\ \A f \in Files : backupDir[l].ref[f] \in {NoLabel, backupDir[l].prior}

\* The most recent backup is an incr, and the running diff has a file that
\* refers to the full.
C17_Witness ==
    /\ RunCase.hasDir
    /\ runType = "diff"
    /\ LatestOf(backupInfo).type = "incr"
    /\ \E f \in Files : backupDir[runLabel].ref[f] = LatestOf(FullBackups)

\* ------------------------------------------------------------------ C19
\* C19: an offline backup that finds postmaster.pid ends with
\* PostmasterRunningError before anything is copied when force is not set,
\* and goes on with a warning, and no such error, when force is set.  The
\* step that raises the error is taken in the first phase, before a label
\* is assigned, a directory made or a file copied, and without force the
\* run gets no further than that.
C19_PostmasterRunning ==
    /\ [](/\ (RunCase.postmasterFound /\ phase # "init") =>
                 (runOpt.force /\ "postmaster.pid exists but --force was passed" \in runWarn)
          /\ (phase # "idle" /\ "postmaster.pid exists but --force was passed" \in runWarn) =>
                 (RunCase.postmasterFound /\ runOpt.force)
          /\ (phase = "idle" /\ runError = "PostmasterRunningError") => (runLabel = NoLabel /\ ~copyStarted))
    /\ [][/\ (phase # "idle" /\ runError' = "PostmasterRunningError") =>
                 /\ phase = "init"
                 /\ RunCase.postmasterFound
                 /\ ~runOpt.force
                 /\ runLabel' = NoLabel
                 /\ ~copyStarted'
                 /\ backupDir' = backupDir
                 /\ backupInfo' = backupInfo
          /\ (phase = "init" /\ RunCase.postmasterFound /\ ~runOpt.force) =>
                 (phase' = "idle" /\ runError' \in {"PostmasterRunningError", "TermError"})]_vars

\* A forced offline backup with postmaster.pid is about to be listed.
C19_Witness ==
    /\ phase = "finalInfo"
    /\ RunCase.postmasterFound
    /\ runOpt.force
    /\ "postmaster.pid exists but --force was passed" \in runWarn
    /\ backupDir[runLabel].files # {}

\* ------------------------------------------------------------------ C20
\* C20: with archive-check on in an online backup, a WAL segment that does
\* not reach the archive ends the wait: the run leaves the check only with
\* ArchiveTimeoutError after archive-timeout (or killed), backup.info does
\* not list the label and the partial directory is kept.
C20_ArchiveTimeout ==
    /\ [][/\ (phase # "idle" /\ runError' = "ArchiveTimeoutError") =>
                 /\ RunCase.archiveMissing
                 /\ archiveWait = ArchiveTimeout
                 /\ runLabel' = runLabel
                 /\ runLabel \notin backupInfo'
                 /\ backupDir' = backupDir
                 /\ runLabel \in Labels /\ Partial(runLabel)
          /\ (RunCase.archiveMissing /\ phase' # "archive") =>
                 (phase' = "idle" /\ runError' \in {"ArchiveTimeoutError", "TermError"})]_vars
    /\ [](RunCase.archiveMissing => <>(walArchived \/ phase = "idle"))

\* The run ended with ArchiveTimeoutError and left its partial directory.
C20_Witness ==
    /\ phase = "idle"
    /\ runError = "ArchiveTimeoutError"
    /\ runLabel \in Labels
    /\ Partial(runLabel)
    /\ runLabel \notin backupInfo

\* ============================================ properties of the standby backup
\* The file as the two hosts hold it when its job has run in a backup made
\* from the standby.
StandbyCase ==
    [shorter |-> standby.active /\ standby.backupStandby /\ standby.file.standby.exists
                    /\ Len(standby.file.standby.data) < Len(standby.file.primary),
     longer |-> standby.active /\ standby.backupStandby /\ standby.file.standby.exists
                    /\ Len(standby.file.standby.data) > Len(standby.file.primary),
     fromPrimary |-> /\ standby.source = "primary"
                     /\ standby.manifest.present
                     /\ standby.manifest.size = Len(standby.file.primary)
                     /\ standby.manifest.checksum =
                            IF standby.file.primary = <<>> THEN NULL ELSE Sha1(standby.file.primary),
     standbyPrefix |-> IF Len(standby.file.standby.data) > Len(standby.file.primary)
                           THEN SubSeq(standby.file.standby.data, 1, Len(standby.file.primary))
                           ELSE standby.file.standby.data]

\* ------------------------------------------------------------------ C21
\* C21 as stated: a file that is shorter on the standby than on the primary
\* is read from the primary.
C21_Original == StandbyCase.shorter => StandbyCase.fromPrimary

\* C21: in a backup from the standby a file that is shorter on the standby
\* than on the primary is still read from the standby unless it is one of
\* the files that always come from the primary: the manifest takes the size
\* and the checksum of the standby's content.
C21_StandbyShorter ==
    StandbyCase.shorter =>
        IF standby.file.master THEN StandbyCase.fromPrimary
        ELSE /\ standby.source = "standby"
             /\ standby.job.r.backupCopyResult = "copy"
             /\ standby.job.r.copySize = Len(standby.file.standby.data)
             /\ standby.manifest.present
             /\ standby.manifest.size = Len(standby.file.standby.data)
             /\ standby.manifest.checksum =
                    IF standby.file.standby.data = <<>> THEN NULL ELSE Sha1(standby.file.standby.data)

\* A file of one byte on the standby and two on the primary was copied from
\* the standby.
C21_Witness ==
    /\ StandbyCase.shorter
    /\ ~standby.file.master
    /\ Len(standby.file.standby.data) = 1
    /\ standby.source = "standby"
    /\ standby.manifest.size = 1
    /\ standby.manifest.checksum # Sha1(standby.file.primary)

\* ------------------------------------------------------------------ C22
\* C22 as stated: a file that is longer on the standby than on the primary
\* is copied with the primary's size and the manifest has the checksum of
\* the primary's content.
C22_Original ==
    StandbyCase.longer =>
        /\ standby.job.r.copySize = Len(standby.file.primary)
        /\ standby.manifest.checksum = IF standby.file.primary = <<>> THEN NULL ELSE Sha1(standby.file.primary)

\* C22: a file that is longer on the standby than on the primary is copied
\* with the primary's size, never more; the checksum in the manifest is that
\* of the bytes copied, which are the first bytes of the standby's file
\* unless the file always comes from the primary.
C22_StandbyLonger ==
    StandbyCase.longer =>
        /\ standby.job.r.backupCopyResult = "copy"
        /\ standby.job.r.copySize = Len(standby.file.primary)
        /\ standby.manifest.present
        /\ standby.manifest.size = Len(standby.file.primary)
        /\ standby.manifest.checksum =
               IF standby.file.primary = <<>> THEN NULL
               ELSE IF standby.file.master THEN Sha1(standby.file.primary)
               ELSE Sha1(StandbyCase.standbyPrefix)

\* One byte was copied from a standby file of two bytes whose first byte is
\* not the byte of the primary.
C22_Witness ==
    /\ StandbyCase.longer
    /\ ~standby.file.master
    /\ Len(standby.file.primary) = 1
    /\ standby.job.r.copySize = 1
    /\ StandbyCase.standbyPrefix # standby.file.primary
    /\ standby.manifest.checksum = Sha1(StandbyCase.standbyPrefix)

\* ============================================ properties of the page checksums
\* The page-checked file of the job: the pages that are checked and fail,
\* the result of the filter, the pages an entry of a list stands for.
PageCase ==
    [checked |-> page.status # "none" /\ page.checksumPage,
     invalid |-> {i \in 0..(Len(page.pages) - 1) :
                     /\ ~page.pages[i + 1].pdUpperZero
                     /\ ~page.pages[i + 1].lsnAboveLimit
                     /\ ~page.pages[i + 1].checksumOk},
     result |-> IF page.job.r.pageChecksumResult = NULL
                    THEN [valid |-> TRUE, align |-> TRUE, error |-> <<>>]
                    ELSE page.job.r.pageChecksumResult[1],
     listed |-> [error \in {page.manifest.checksumPageError} \cup
                           (IF page.job.r.pageChecksumResult = NULL THEN {}
                            ELSE {page.job.r.pageChecksumResult[1].error}) |->
                    UNION {error[k][1]..error[k][Len(error[k])] : k \in 1..Len(error)}]]

\* ------------------------------------------------------------------ C23
\* C23: bad page checksums never end a backup: a relation file with invalid
\* pages or a size that is not a multiple of the page size is copied and
\* its SHA-1 recorded, its manifest entry gets checksumPage = false, with
\* an error list that names the invalid pages when there are any, a warning
\* is logged, no error is raised and the backup that ends is committed.
C23_PageNotFatal ==
    /\ page.error = ""
    /\ page.status = "done" => page.committed
    /\ (PageCase.checked /\ (PageCase.invalid # {} \/ page.trailing)) =>
           /\ page.job.status = "ok"
           /\ page.job.r.backupCopyResult = "copy"
           /\ page.job.r.copyChecksum = Sha1(<<page.pages, page.trailing>>)
           /\ page.status \in {"result", "done"} =>
                  /\ page.manifest.checksum = page.job.r.copyChecksum
                  /\ page.manifest.checksumPageSet
                  /\ ~page.manifest.checksumPage
                  /\ PageCase.listed[page.manifest.checksumPageError] = PageCase.invalid
                  /\ page.warn # {}

\* A committed backup with a file whose pages 0 and 2 are invalid.
C23_Witness ==
    /\ page.status = "done"
    /\ page.committed
    /\ PageCase.checked
    /\ PageCase.invalid = {0, 2}
    /\ ~page.manifest.checksumPage
    /\ page.manifest.checksumPageError = <<(<<0>>), (<<2>>)>>
    /\ page.warn = {"invalid page checksums found"}

\* ------------------------------------------------------------------ C24
\* C24: the error list of a page-checked file stands for exactly the pages
\* that are not exempt and fail their checksum; it is sorted without
\* duplicates, a run of consecutive pages is one range <<first, last>> and
\* never two entries, and every page named is a page of the file.
C24_PageErrorList ==
    PageCase.checked =>
        LET error == PageCase.result.error IN
        /\ PageCase.listed[error] = PageCase.invalid
        /\ \A k \in 1..Len(error) :
               /\ Len(error[k]) \in {1, 2}
               /\ Len(error[k]) = 2 => error[k][1] < error[k][2]
               /\ error[k][1] >= 0
               /\ error[k][Len(error[k])] < Len(page.pages)
               /\ k < Len(error) => error[k][Len(error[k])] + 1 < error[k + 1][1]

\* Pages 0, 2 and 3 of four fail and page 1 is new: the list is 0, 2-3.
C24_Witness ==
    /\ PageCase.checked
    /\ Len(page.pages) = 4
    /\ page.pages[2].pdUpperZero /\ ~page.pages[2].checksumOk
    /\ PageCase.invalid = {0, 2, 3}
    /\ PageCase.result.error = <<(<<0>>), (<<2, 3>>)>>

\* ------------------------------------------------------------------ C25
\* C25: the result is valid exactly when the error list is empty and the
\* size is a multiple of the page size; bytes after the last whole page give
\* valid = false and align = false and leave the entries of the whole pages
\* as they are.
C25_PageValid ==
    PageCase.checked =>
        /\ PageCase.result.valid = (PageCase.result.error = <<>> /\ ~page.trailing)
        /\ PageCase.result.align = ~page.trailing
        /\ page.trailing =>
               /\ ~PageCase.result.valid
               /\ ~PageCase.result.align
               /\ PageCase.listed[PageCase.result.error] = PageCase.invalid

\* A file of one good page and a trailing byte is not valid, and a file
\* with an invalid page before the trailing byte still lists it.
C25_Witness ==
    /\ PageCase.checked
    /\ page.trailing
    /\ Len(page.pages) = 2
    /\ PageCase.invalid = {1}
    /\ PageCase.result = [valid |-> FALSE, align |-> FALSE, error |-> <<(<<1>>)>>]

\* ================================= properties of the references of a backup
\* ------------------------------------------------------------------ C26
\* C26: when the file of a diff or incr backup has been processed, it either
\* is a reference to a prior backup or is stored in the directory of the
\* backup, never both and never neither, whatever hardlink, delta and resume
\* are; with hardlink on the directory holds a hard link to the prior's file
\* for a reference, and nothing of it otherwise.
C26_ReferenceOrStored ==
    (priorOut.status \in {"job", "nojob"} /\ priorOut.file.present) =>
        /\ priorOut.file.reference <=> priorOut.entry.kind # "file"
        /\ priorOut.file.reference =>
               priorOut.entry.kind = (IF priorOut.opt.hardlink THEN "hardlink" ELSE "none")
        /\ ~priorOut.file.reference => priorOut.entry.file = RepoOk(priorIn.pgFile.data)

\* A resumed backup with delta and hardlink: the copy the halted backup left
\* was removed because the file is a reference, and the file is linked.
C26_Witness ==
    /\ priorOut.status = "job"
    /\ priorIn.resume
    /\ priorOut.delta
    /\ priorOut.opt.hardlink
    /\ priorOut.file.reference
    /\ priorOut.job.r.backupCopyResult = "noop"
    /\ priorOut.entry.kind = "hardlink"

\* ------------------------------------------------------------------ C27
\* C27: a diff or incr backup whose manifest has a reference to the prior
\* backup for every file, so that no file is queued, ends with
\* FileMissingError (unless killed first) and backup.info does not list it;
\* FileMissingError ends a run in no other case.
C27_NoFilesChanged ==
    /\ []((phase = "idle" /\ runError = "FileMissingError") =>
              (runType \in {"diff", "incr"} /\ runLabel \notin backupInfo))
    /\ [][/\ RunCase.nothingChanged =>
                 /\ phase' = "idle"
                 /\ runError' \in {"FileMissingError", "TermError"}
                 /\ backupInfo' = backupInfo
                 /\ runLabel' = runLabel
                 /\ runLabel \notin backupInfo'
          /\ (phase # "idle" /\ runError' = "FileMissingError") => RunCase.nothingChanged]_vars

\* A diff ended with FileMissingError; its directory is partial and not
\* listed.
C27_Witness ==
    /\ phase = "idle"
    /\ runError = "FileMissingError"
    /\ runType = "diff"
    /\ copyStarted
    /\ runLabel \in Labels
    /\ backupDir[runLabel].files = {}
    /\ runLabel \notin backupInfo

C29_OneJobPerWorker ==
    /\ [](\A w \in 1..ProcessMax : Len(parallel.worker[w].jobs) <= 1)
    /\ [][\A w \in 1..ProcessMax :
             Len(parallel'.worker[w].jobs) > Len(parallel.worker[w].jobs) =>
                 /\ parallel.worker[w].jobs = <<>>
                 /\ parallel.worker[w].response = "none"
                 /\ Len(parallel'.worker[w].jobs) = 1]_vars

\* Every worker has a job, one of them answered, and a job waits in the
\* queue.
C29_Witness ==
    /\ \A w \in 1..ProcessMax : Len(parallel.worker[w].jobs) = 1
    /\ \E w \in 1..ProcessMax : parallel.worker[w].response = "ok"
    /\ parallel.queue # {}
    /\ parallel.error = ""

\* ------------------------------------------------------------------ C30
\* C30: once a worker's error has been read, no job is dispatched, every
\* worker has been sent a close request, and what the workers still answer
\* is discarded: the results applied to the manifest stay as they were when
\* the error was read.
C30_FatalError ==
    /\ [](parallel.error # "" => \A w \in 1..ProcessMax : parallel.worker[w].closeSent)
    /\ [][parallel.error # "" =>
             /\ parallel'.error = parallel.error
             /\ parallel'.queue = parallel.queue
             /\ parallel'.applied = parallel.applied
             /\ parallel'.manifest = parallel.manifest
             /\ \A w \in 1..ProcessMax : Len(parallel'.worker[w].jobs) <= Len(parallel.worker[w].jobs)]_vars
    /\ [][(parallel.error = "" /\ parallel'.error # "") =>
             /\ parallel'.queue = parallel.queue
             /\ parallel'.applied = parallel.applied
             /\ parallel'.manifest = parallel.manifest]_vars

\* After the error a worker has answered its job with a result, which is not
\* applied, while a job is still in the queue.
C30_Witness ==
    /\ parallel.error # ""
    /\ parallel.queue # {}
    /\ \E w \in 1..ProcessMax :
          /\ parallel.worker[w].closeSent
          /\ parallel.worker[w].jobs # <<>>
          /\ parallel.worker[w].response = "ok"
          /\ Head(parallel.worker[w].jobs) \notin parallel.applied

\* ------------------------------------------------------------------ C31
\* C31: when every job has been answered and applied, the manifest (its
\* files in the order of their names, as it is saved) depends only on the
\* result each file got, not on the order in which the results arrived: a
\* file that was copied or verified has the sizes and the checksum of its
\* result and no reference, every other file has the entry the manifest was
\* built with, and the files to remove are the skipped ones.  An entry
\* changes only in the step where the dispatcher reads a result from the
\* worker that holds the job of that name; a worker's answer changes nothing.
C31_ArrivalOrder ==
    /\ []((parallel.queue = {} /\ parallel.error = "" /\ \A w \in 1..ProcessMax : parallel.worker[w].jobs = <<>>) =>
             /\ \A j \in 1..MaxJobs :
                    parallel.manifest[j] =
                        IF parallel.result[j].backupCopyResult \in {"noop", "skip"}
                            THEN [size |-> j, repoSize |-> 0, checksum |-> IF j % 2 = 1 THEN Sha1(<<j>>) ELSE NULL,
                                  reference |-> j % 2 = 1]
                            ELSE [size |-> parallel.result[j].copySize, repoSize |-> parallel.result[j].repoSize,
                                  checksum |-> parallel.result[j].copyChecksum, reference |-> FALSE]
             /\ parallel.fileRemove = {j \in 1..MaxJobs : parallel.result[j].backupCopyResult = "skip"})
    /\ [][\A j \in 1..MaxJobs :
             parallel'.manifest[j] # parallel.manifest[j] =>
                 \E w \in 1..ProcessMax :
                     /\ parallel.worker[w].jobs # <<>>
                     /\ Head(parallel.worker[w].jobs) = j
                     /\ parallel.worker[w].response = "ok"
                     /\ parallel'.worker[w].response = "none"]_vars

\* All results are applied, they arrived in an order that is not the order
\* of the names, and at least one of them changed its entry.
C31_Witness ==
    /\ parallel.queue = {} /\ parallel.error = ""
    /\ \A w \in 1..ProcessMax : parallel.worker[w].jobs = <<>>
    /\ Len(parallel.log) = MaxJobs
    /\ parallel.log[1][1] > parallel.log[2][1]
    /\ \E j \in 1..MaxJobs : parallel.result[j].backupCopyResult = "copy" /\ ~parallel.manifest[j].reference

C33_RoundTrip ==
    /\ manifestIo.status = "reloaded" => manifestIo.manifest = manifestIo.prior
    /\ manifestIo.status # "none" =>
           \A i \in 1..(Len(manifestIo.manifest) - 1) :
               StrLess(manifestIo.manifest[i].name, manifestIo.manifest[i + 1].name)
    /\ manifestIo.status \in {"found", "reloaded"} =>
           /\ Len(manifestIo.find) = Len(manifestIo.manifest)
           /\ \A i \in 1..Len(manifestIo.manifest) : manifestIo.find[i] = i
    /\ manifestIo.status \in {"saved", "found", "reloaded"} =>
           /\ Len(manifestIo.text) = 2
           /\ manifestIo.text[1].name = "target:file" /\ manifestIo.text[2].name = "target:file:default"
           /\ Len(manifestIo.text[1].kv) = Len(manifestIo.manifest)
           /\ \A i \in 1..(Len(manifestIo.text[1].kv) - 1) :
                  StrLess(manifestIo.text[1].kv[i][1], manifestIo.text[1].kv[i + 1][1])

\* A text with its files out of order, one of them with a master flag of
\* its own, was loaded, saved, searched and loaded again.
C33_Witness ==
    /\ manifestIo.status = "reloaded"
    /\ Len(manifestIo.manifest) = MaxManifestFile
    /\ \E i \in 1..(Len(manifestIo.textLoad[1].kv) - 1) :
          StrLess(manifestIo.textLoad[1].kv[i + 1][1], manifestIo.textLoad[1].kv[i][1])
    /\ \E i, k \in 1..Len(manifestIo.manifest) : manifestIo.manifest[i].master /\ ~manifestIo.manifest[k].master
    /\ \E i \in 1..Len(manifestIo.manifest) : manifestIo.manifest[i].size = 0

\* ------------------------------------------------------------------ C34
\* C34: delta off and a checksum passed: the source is not compared with the
\* checksum.  The result is Checksum, with the repo copy left as it was,
\* when the repo copy has the checksum and the size passed, whatever the
\* source holds; when it does not, a source that exists is copied again
\* (ReCopy) and the checksum returned is that of the bytes copied.
C34_NoDeltaPrior ==
    (call.active /\ ~call.p.delta /\ call.p.pgFileChecksum # NULL) =>
        /\ FileCase.repoBeforeMatch =>
               /\ res.status = "ok"
               /\ res.r.backupCopyResult = "checksum"
               /\ res.r.copyChecksum = call.p.pgFileChecksum
               /\ repo = call.repoBefore
        /\ (~FileCase.repoBeforeMatch /\ pg.exists) =>
               /\ res.status = "ok"
               /\ res.r.backupCopyResult = "recopy"
               /\ repo.state = "ok"
               /\ res.r.copyChecksum = <<"sha1", repo.data>>

\* The source holds other bytes than the checksum passed stands for, the
\* repo copy matches it, and the result is Checksum.
C34_Witness ==
    /\ call.active /\ ~call.p.delta /\ call.p.pgFileChecksum # NULL
    /\ pg.exists /\ Len(pg.data) = call.p.pgFileSize /\ <<"sha1", pg.data>> # call.p.pgFileChecksum
    /\ FileCase.repoBeforeMatch
    /\ res.r.backupCopyResult = "checksum"

\* ------------------------------------------------------------------ C35
\* C35: the calls made to the database so far are the beginning of this
\* list: time, advisory lock, for the exclusive form the check for a backup
\* in progress, start backup, database list, tablespace list, with
\* backup-standby the replay wait on the standby, the copy start time (asked
\* twice), stop backup, stop time.  The check for a backup in progress is
\* made exactly when the version is before 9.6.  A file is copied only
\* after start backup and the copy start time and before stop backup.
C35_DbCallOrder ==
    /\ [](LET calls == SelectSeq(db.calls, LAMBDA c : c[2] # "open")
              order == <<<<1, "time">>, <<1, "advisoryLock">>>>
                           \o (IF db.version = "9.5" THEN <<<<1, "isInBackup">>>> ELSE <<>>)
                           \o <<<<1, "startBackup", db.startFast>>, <<1, "databaseList">>,
                                <<1, "tablespaceList">>>>
                           \o (IF db.backupStandby THEN <<<<2, "replayWait">>>> ELSE <<>>)
                           \o <<<<1, "time">>, <<1, "time">>, <<1, "stopBackup">>, <<1, "time">>>>
          IN  /\ Len(calls) <= Len(order)
              /\ calls = SubSeq(order, 1, Len(calls))
              /\ db.status \in {"started", "copy", "stopped", "error"} =>
                     ((\E i \in 1..Len(calls) : calls[i][2] = "isInBackup") <=> db.version = "9.5")
              /\ db.status = "stopped" => calls = order)
    /\ [][db'.copied # db.copied =>
             /\ \E i \in 1..Len(db.calls) : db.calls[i][2] = "startBackup"
             /\ \A i \in 1..Len(db.calls) : db.calls[i][2] # "stopBackup"
             /\ db'.calls = db.calls]_vars
    /\ [][(\E i \in 1..Len(db.calls) : db.calls[i][2] = "stopBackup") => db'.copied = db.copied]_vars

\* A backup from a standby has copied files and was stopped.
C35_Witness ==
    /\ db.status = "stopped"
    /\ db.backupStandby
    /\ db.copied = MaxDbFile
    /\ Len(db.calls) = 12


C37_ClientExecTogether ==
    /\ \A i \in DOMAIN helper.clientLocal :
           (helper.clientLocal[i].client = 0) <=> (helper.clientLocal[i].exec = 0)
    /\ \A i \in DOMAIN helper.clientRemote :
           (helper.clientRemote[i].client = 0) <=> (helper.clientRemote[i].exec = 0)

\* ------------------------------------------------------------------ C38
\* C38 as stated: the client protocolRemoteGet(storageType, hostId) returns
\* talks to a process that was started for the storage type asked for.
C38_RemoteStorageType ==
    (helper.last.fn = "protocolRemoteGet" /\ helper.last.client > 0)
        => helper.proc[helper.last.client].storageType = helper.last.storageType

\* ------------------------------------------------------------------ C39
\* C39 as stated: every access of a call to clientLocal or clientRemote is
\* inside the array, for every protocolId and hostId the assertions admit.
C39_InBounds ==
    helper.last.inBounds

====
